---- MODULE Spec2Model ----
(***************************************************************************)
(* Reservation lifecycle of the spa booking backend: the request handlers  *)
(* of bookingController.js (createReservation, confirmReservation,         *)
(* cancelReservation, adminCancelBooking, adminRescheduleBooking) and the  *)
(* background job cleanupExpiredReservations, over the two tables          *)
(* time_slots and bookings.  Every await on the store is one atomic step;  *)
(* handlers of different requests interleave between their steps.          *)
(***************************************************************************)
EXTENDS Integers, FiniteSets, Sequences, TLC

VARIABLES
  slots,      \* table time_slots: id -> row
  services,   \* table services: id -> row
  bookings,   \* table bookings: id -> row, only for the ids that exist
  nextId,     \* next primary key the store hands out for a booking
  now,        \* the clock (new Date()), in minutes
  failures,   \* store calls that have returned an error so far
  env,        \* process.env: the configuration the process was started with
  pc,         \* per request handler: the await it is suspended at
  loc         \* per request handler: its local variables and its response

vars == <<slots, services, bookings, nextId, now, failures, env, pc, loc>>

(***************************************************************************)
(* Bounds of the model.                                                    *)
(***************************************************************************)
MaxBookings == 2
MaxTime == 2
MaxFailures == 1

Procs == {"p1", "p2"}
Customers == {"c1", "c2"}
\* the customers who create holds; the others only call confirm and cancel
Holders == {"c1"}
Therapists == {"t1", "t2"}
SlotIds == {"A", "B"}
ServiceIds == {"s60", "s90", "sOff"}
BookingIds == 1..MaxBookings

\* reservation_expires_at: null.  It orders before every time, as
\* new Date(null) (the epoch) is earlier than every new Date().
NULL == -1

(***************************************************************************)
(* utils                                                                   *)
(***************************************************************************)
\* a parse that returns whatever number it has read
parseIntSafe_Unclamped(value, defaultVal, min, max) ==
  IF value = <<>> THEN defaultVal ELSE value[1]

\* a value read from process.env is <<>> when parseInt gives NaN, else <<n>>
parseIntSafe(value, defaultVal, min, max) ==
  IF value = <<>> THEN defaultVal
  ELSE LET parsed == value[1]
           capped == IF parsed < max THEN parsed ELSE max
       IN IF capped > min THEN capped ELSE min

\* process.env.TZ, the time zone of the process: the offset of its local
\* time from UTC in minutes, `before` up to the instant `at` and `after` from
\* that instant on
ZoneUTC == [at |-> 0, before |-> 0, after |-> 0]
\* five hours behind UTC all year
ZoneWest == [at |-> 0, before |-> -300, after |-> -300]
\* the clocks are set back an hour at minute 1 (the end of summer time)
ZoneFallBack == [at |-> 1, before |-> 60, after |-> 0]
\* the clocks are set forward an hour at minute 1 (the start of summer time)
ZoneSpringForward == [at |-> 1, before |-> 0, after |-> 60]
Zones == {ZoneUTC, ZoneWest, ZoneFallBack, ZoneSpringForward}

\* the configuration of the model: a hold of one minute, cancellations of
\* confirmed bookings at least one hour ahead, and a process in UTC
Config == [RESERVATION_TIMEOUT_MINUTES |-> <<1>>, MIN_CANCEL_HOURS |-> <<1>>,
           TZ |-> ZoneUTC]

\* the offset of local time at t.  t is an instant (isUTC) or a local time
\* value; a local time that the clocks show twice, or never, is read with
\* the offset before the transition
LocalTZA(t, isUTC) ==
  LET zone == env.TZ
  IN IF isUTC
     THEN IF t < zone.at THEN zone.before ELSE zone.after
     ELSE IF t - zone.before < zone.at THEN zone.before
          ELSE IF t - zone.after >= zone.at THEN zone.after ELSE zone.before

\* the local time value of an instant, and the instant of a local time value
LocalTime(t) == t + LocalTZA(t, TRUE)
UTC(t) == t - LocalTZA(t, FALSE)

\* date.setMinutes(date.getMinutes() + minutes) works on the local time of
\* new Date(); toISOString gives the instant
addMinutes(minutes) == UTC(LocalTime(now) + minutes)

\* "HH:MM" is the pair <<HH, MM>>
getTimeDuration(startTime, endTime) ==
  LET startMinutes == startTime[1] * 60 + startTime[2]
      endMinutes == endTime[1] * 60 + endTime[2]
  IN endMinutes - startMinutes

(***************************************************************************)
(* rows                                                                    *)
(***************************************************************************)
InitSlots ==
  [s \in SlotIds |->
     IF s = "A"
     THEN [therapist_id |-> "t1", slot_date |-> "d1", start_time |-> <<0, 30>>,
           end_time |-> <<1, 30>>, is_available |-> TRUE]
     ELSE [therapist_id |-> "t1", slot_date |-> "d1", start_time |-> <<1, 1>>,
           end_time |-> <<2, 31>>, is_available |-> TRUE]]

InitServices ==
  [s \in ServiceIds |->
     IF s = "s60" THEN [name |-> "massage", price |-> 50, duration |-> 60, is_active |-> TRUE]
     ELSE IF s = "s90" THEN [name |-> "facial", price |-> 80, duration |-> 90, is_active |-> TRUE]
     ELSE [name |-> "retired", price |-> 10, duration |-> 60, is_active |-> FALSE]]

NoSlot == [therapist_id |-> "", slot_date |-> "", start_time |-> <<0, 0>>,
           end_time |-> <<0, 0>>, is_available |-> FALSE]
NoService == [name |-> "", price |-> 0, duration |-> 0, is_active |-> FALSE]
NoBooking == [id |-> 0, customer_id |-> "", service_id |-> "", therapist_id |-> "",
              time_slot_id |-> "", booking_date |-> "", start_time |-> <<0, 0>>,
              end_time |-> <<0, 0>>, service_name |-> "", service_price |-> 0,
              service_duration |-> 0, status |-> "", reservation_expires_at |-> NULL,
              payment_status |-> "", payment_amount |-> 0]

\* the row a select by id finds: an id that names no row finds none
NoRow == ""
SlotRow(id) == IF id \in SlotIds THEN slots[id] ELSE NoSlot
ServiceRow(id) == IF id \in ServiceIds THEN services[id] ELSE NoService

\* the locals of a handler that is not running
NoLoc == [op |-> "", id |-> 0, customer_id |-> "", therapist_id |-> "",
          time_slot_id |-> "", timeSlot |-> NoSlot, service |-> NoService,
          service_id |-> "", booking |-> NoBooking, expiresAt |-> NULL,
          selected |-> {}, now |-> 0, found |-> 0, count |-> 0, logged |-> 0,
          tomorrowStr |-> "", delivery |-> "", ret |-> ""]

Exists(id) == id \in DOMAIN bookings

\* a store call may return an error; the model bounds how many do
CanFail == failures < MaxFailures

\* the store call of a compensation may return an error as well, also when
\* the call it compensates for has used up the bound
RollbackCanFail == failures <= MaxFailures

\* res.status(..).json(..): the handler keeps nothing but its response
Respond(p, r) ==
  /\ pc' = [pc EXCEPT ![p] = "done"]
  /\ loc' = [loc EXCEPT ![p] = [NoLoc EXCEPT !.op = loc[p].op, !.ret = r]]

\* a response that carries the booking row
RespondData(p, r, id) ==
  /\ pc' = [pc EXCEPT ![p] = "done"]
  /\ loc' = [loc EXCEPT ![p] = [NoLoc EXCEPT !.op = loc[p].op, !.ret = r, !.id = id]]

\* console.error('Rollback failed for booking:', id, rollbackError), then the
\* response
RespondLogged(p, r, id) ==
  /\ pc' = [pc EXCEPT ![p] = "done"]
  /\ loc' = [loc EXCEPT ![p] = [NoLoc EXCEPT !.op = loc[p].op, !.ret = r, !.logged = id]]

Goto(p, label, l) ==
  /\ pc' = [pc EXCEPT ![p] = label]
  /\ loc' = [loc EXCEPT ![p] = l]

Init ==
  /\ slots = InitSlots
  /\ services = InitServices
  /\ bookings = <<>>
  /\ nextId = 1
  /\ now = 0
  /\ failures = 0
  /\ env = Config
  /\ pc = [p \in Procs |-> "idle"]
  /\ loc = [p \in Procs |-> NoLoc]

(***************************************************************************)
(* createReservation                                                       *)
(***************************************************************************)
timeoutMinutes == parseIntSafe(env.RESERVATION_TIMEOUT_MINUTES, 5, 1, 60)

\* the request has passed its checks: the selects of time_slots and of
\* services are sent together
CreateBegin(p, customer_id, service_id, therapist_id, time_slot_id) ==
  /\ Goto(p, "cr_reads", [NoLoc EXCEPT !.op = "create", !.customer_id = customer_id,
                                       !.service_id = service_id,
                                       !.therapist_id = therapist_id,
                                       !.time_slot_id = time_slot_id])
  /\ UNCHANGED <<slots, services, bookings, nextId, now, failures, env>>

\* the handler is called for a request that has just arrived
CreateStart(p, customer_id, service_id, therapist_id, time_slot_id) ==
  /\ pc[p] = "idle"
  /\ CreateBegin(p, customer_id, service_id, therapist_id, time_slot_id)

\* both selects have answered: the checks of the two results, and
\* 2. the expiry, computed from the clock at this time
CreateChecks(p, l) ==
  IF l.timeSlot = NoSlot
  THEN Goto(p, "done", [NoLoc EXCEPT !.op = "create",
                                     !.ret = "400 Time slot not available or does not exist"])
  ELSE IF l.service = NoService
       THEN Goto(p, "done", [NoLoc EXCEPT !.op = "create",
                                          !.ret = "400 Service not found or inactive"])
       ELSE Goto(p, "cr_insert", [l EXCEPT !.expiresAt = addMinutes(timeoutMinutes)])

\* the answer of one of the two selects: the handler goes on when it is the
\* later one and waits for the other one otherwise
CreateAnswer(p, l, other) ==
  IF pc[p] = "cr_reads" THEN Goto(p, other, l) ELSE CreateChecks(p, l)

\* 1. the select of time_slots answers: the row, or no row (NoSlot), an
\* error included
CreateReadSlot(p) ==
  /\ pc[p] \in {"cr_reads", "cr_slot"}
  /\ UNCHANGED <<slots, services, bookings, nextId, now, env>>
  /\ LET time_slot_id == loc[p].time_slot_id
         slotFound == /\ time_slot_id \in SlotIds
                      /\ SlotRow(time_slot_id).therapist_id = loc[p].therapist_id
                      /\ SlotRow(time_slot_id).is_available
     IN \/ /\ CanFail
           /\ failures' = failures + 1
           /\ CreateAnswer(p, [loc[p] EXCEPT !.timeSlot = NoSlot], "cr_service")
        \/ /\ UNCHANGED failures
           /\ CreateAnswer(p, [loc[p] EXCEPT !.timeSlot =
                                  IF slotFound THEN SlotRow(time_slot_id) ELSE NoSlot],
                           "cr_service")

\* 1. the select of services answers: the row, or no row (NoService), an
\* error included
CreateReadService(p) ==
  /\ pc[p] \in {"cr_reads", "cr_service"}
  /\ UNCHANGED <<slots, services, bookings, nextId, now, env>>
  /\ LET service_id == loc[p].service_id
         serviceFound == service_id \in ServiceIds /\ ServiceRow(service_id).is_active
     IN \/ /\ CanFail
           /\ failures' = failures + 1
           /\ CreateAnswer(p, [loc[p] EXCEPT !.service = NoService], "cr_slot")
        \/ /\ UNCHANGED failures
           /\ CreateAnswer(p, [loc[p] EXCEPT !.service =
                                  IF serviceFound THEN ServiceRow(service_id) ELSE NoService],
                           "cr_slot")

NewBooking(id, l, expiresAt) ==
  [id |-> id,
   customer_id |-> l.customer_id,
   service_id |-> l.service_id,
   therapist_id |-> l.therapist_id,
   time_slot_id |-> l.time_slot_id,
   booking_date |-> l.timeSlot.slot_date,
   start_time |-> l.timeSlot.start_time,
   end_time |-> l.timeSlot.end_time,
   service_name |-> l.service.name,
   service_price |-> l.service.price,
   service_duration |-> l.service.duration,
   status |-> "pending",
   reservation_expires_at |-> expiresAt,
   payment_status |-> "pending",
   payment_amount |-> l.service.price]

\* 4. insert the PENDING booking, with the expiry computed before the call
CreateInsert(p) ==
  /\ pc[p] = "cr_insert"
  /\ nextId <= MaxBookings
  /\ UNCHANGED <<slots, services, now, env>>
  /\ LET expiresAt == loc[p].expiresAt
         booking == NewBooking(nextId, loc[p], expiresAt)
     IN \/ /\ CanFail
           /\ failures' = failures + 1
           /\ UNCHANGED <<bookings, nextId>>
           /\ Respond(p, "500 Failed to create reservation")
        \/ /\ UNCHANGED failures
           /\ bookings' = bookings @@ (nextId :> booking)
           /\ nextId' = nextId + 1
           /\ Goto(p, "cr_claim", [loc[p] EXCEPT !.booking = booking, !.expiresAt = expiresAt])

\* 5. mark the slot unavailable: update ... where id = time_slot_id
ClaimSlot(p) ==
  slots' = [slots EXCEPT ![loc[p].time_slot_id].is_available = FALSE]

CreateClaim(p) ==
  /\ pc[p] = "cr_claim"
  /\ UNCHANGED <<services, bookings, nextId, now, env>>
  /\ \/ /\ CanFail
        /\ failures' = failures + 1
        /\ UNCHANGED slots
        /\ Goto(p, "cr_rollback", loc[p])
     \/ /\ UNCHANGED failures
        /\ ClaimSlot(p)
        /\ RespondData(p, "201", loc[p].booking.id)

\* a delete that removes the newest booking, whatever its id
DeleteById_Latest(bs, id) ==
  [i \in {j \in DOMAIN bs : \E k \in DOMAIN bs : k > j} |-> bs[i]]

\* delete from bookings where id = id
DeleteById(bs, id) == [i \in DOMAIN bs \ {id} |-> bs[i]]

\* rollback: delete the booking just created; the result is not looked at
CreateRollback(p) ==
  /\ pc[p] = "cr_rollback"
  /\ UNCHANGED <<slots, services, nextId, now, env>>
  /\ Respond(p, "500 Failed to reserve time slot")
  /\ \/ /\ RollbackCanFail
        /\ failures' = failures + 1
        /\ UNCHANGED bookings
     \/ /\ UNCHANGED failures
        /\ bookings' = DeleteById(bookings, loc[p].booking.id)

(***************************************************************************)
(* confirmReservation                                                      *)
(***************************************************************************)
HasExpired_Reversed(booking) == booking.reservation_expires_at > now

\* an expiry test that takes the minute of expiry for expired
HasExpired_AtExpiry(booking) == booking.reservation_expires_at <= now

\* 3. new Date(booking.reservation_expires_at) < new Date()
HasExpired(booking) == booking.reservation_expires_at < now

\* a confirm that removes the hold it finds expired
ConfirmRead_DropsExpired(p, id, customer_id) ==
  /\ pc[p] = "idle"
  /\ UNCHANGED <<slots, services, nextId, now, env>>
  /\ LET found == Exists(id) /\ bookings[id].customer_id = customer_id
         l == [NoLoc EXCEPT !.op = "confirm"]
     IN \/ /\ CanFail
           /\ failures' = failures + 1
           /\ UNCHANGED bookings
           /\ Goto(p, "done", [l EXCEPT !.ret = "404 Booking not found"])
        \/ /\ ~found
           /\ UNCHANGED <<failures, bookings>>
           /\ Goto(p, "done", [l EXCEPT !.ret = "404 Booking not found"])
        \/ /\ found /\ bookings[id].status # "pending"
           /\ UNCHANGED <<failures, bookings>>
           /\ Goto(p, "done", [l EXCEPT !.ret = "400 Cannot confirm booking with status"])
        \/ /\ found /\ bookings[id].status = "pending" /\ HasExpired(bookings[id])
           /\ UNCHANGED failures
           /\ bookings' = [i \in DOMAIN bookings \ {id} |-> bookings[i]]
           /\ Goto(p, "done", [l EXCEPT !.ret = "400 Reservation has expired"])
        \/ /\ found /\ bookings[id].status = "pending" /\ ~HasExpired(bookings[id])
           /\ UNCHANGED <<failures, bookings>>
           /\ Goto(p, "cf_update", [l EXCEPT !.id = id, !.customer_id = customer_id])

\* 1. fetch the booking of this customer, 2. status check, 3. expiry check
ConfirmRead(p, id, customer_id) ==
  /\ pc[p] = "idle"
  /\ UNCHANGED <<slots, services, bookings, nextId, now, env>>
  /\ LET found == Exists(id) /\ bookings[id].customer_id = customer_id
         l == [NoLoc EXCEPT !.op = "confirm"]
     IN \/ /\ CanFail
           /\ failures' = failures + 1
           /\ Goto(p, "done", [l EXCEPT !.ret = "404 Booking not found"])
        \/ /\ ~found
           /\ UNCHANGED failures
           /\ Goto(p, "done", [l EXCEPT !.ret = "404 Booking not found"])
        \/ /\ found /\ bookings[id].status # "pending"
           /\ UNCHANGED failures
           /\ Goto(p, "done", [l EXCEPT !.ret = "400 Cannot confirm booking with status"])
        \/ /\ found /\ bookings[id].status = "pending" /\ HasExpired(bookings[id])
           /\ UNCHANGED failures
           /\ Goto(p, "done", [l EXCEPT !.ret = "400 Reservation has expired"])
        \/ /\ found /\ bookings[id].status = "pending" /\ ~HasExpired(bookings[id])
           /\ UNCHANGED failures
           /\ Goto(p, "cf_update", [l EXCEPT !.id = id, !.customer_id = customer_id])

\* a confirm that writes the name of the item anew
ConfirmUpdate_RenamesItem(p) ==
  /\ pc[p] = "cf_update"
  /\ UNCHANGED <<slots, services, nextId, now, env>>
  /\ \/ /\ CanFail
        /\ failures' = failures + 1
        /\ UNCHANGED bookings
        /\ Respond(p, "500 Failed to confirm booking")
     \/ /\ ~Exists(loc[p].id)
        /\ UNCHANGED <<failures, bookings>>
        /\ Respond(p, "500 Failed to confirm booking")
     \/ /\ Exists(loc[p].id)
        /\ UNCHANGED failures
        /\ bookings' = [bookings EXCEPT ![loc[p].id].status = "confirmed",
                                        ![loc[p].id].payment_status = "paid",
                                        ![loc[p].id].service_name = "paid",
                                        ![loc[p].id].reservation_expires_at = NULL]
        /\ RespondData(p, "200", loc[p].id)

\* 4. update ... where id = id, .select().single(): no row is an error
ConfirmUpdate(p) ==
  /\ pc[p] = "cf_update"
  /\ UNCHANGED <<slots, services, nextId, now, env>>
  /\ \/ /\ CanFail
        /\ failures' = failures + 1
        /\ UNCHANGED bookings
        /\ Respond(p, "500 Failed to confirm booking")
     \/ /\ ~Exists(loc[p].id)
        /\ UNCHANGED <<failures, bookings>>
        /\ Respond(p, "500 Failed to confirm booking")
     \/ /\ Exists(loc[p].id)
        /\ UNCHANGED failures
        /\ bookings' = [bookings EXCEPT ![loc[p].id].status = "confirmed",
                                        ![loc[p].id].payment_status = "paid",
                                        ![loc[p].id].reservation_expires_at = NULL]
        /\ RespondData(p, "200", loc[p].id)

(***************************************************************************)
(* cancelReservation and adminCancelBooking                                *)
(***************************************************************************)
minCancelHours == parseIntSafe(env.MIN_CANCEL_HOURS, 0, 0, 168)

\* the days of the calendar: "d1" is day 0, the day of minute 0 in UTC
Dates == <<"d0", "d1", "d2", "d3">>
DateOfDay(day) == Dates[day + 2]
\* a local time value counts 1440 minutes for every day of the calendar; the
\* zone decides how long the day lasts
MinutesPerDay == 1440
\* the local time value of 00:00 on a date
DayStart(date) ==
  IF date = "d0" THEN 0 - MinutesPerDay
  ELSE IF date = "d1" THEN 0
       ELSE IF date = "d2" THEN MinutesPerDay ELSE 2 * MinutesPerDay

\* new Date(`${booking_date}T${start_time}`): a date and a time without an
\* offset are local time
appointmentTime(booking) ==
  UTC(DayStart(booking.booking_date) + booking.start_time[1] * 60 + booking.start_time[2])

\* hoursUntilAppointment < minCancelHours, both sides in minutes
TooLateToCancel_AnyStatus(booking) ==
  /\ minCancelHours > 0
  /\ appointmentTime(booking) - now < minCancelHours * 60

TooLateToCancel(booking) ==
  /\ minCancelHours > 0
  /\ booking.status = "confirmed"
  /\ appointmentTime(booking) - now < minCancelHours * 60

Cancellable(status) == status \in {"pending", "confirmed"}

\* a cancel that looks the booking up by id alone
CancelRead_AnyCustomer(p, id, customer_id) ==
  /\ pc[p] = "idle"
  /\ UNCHANGED <<slots, services, bookings, nextId, now, env>>
  /\ LET found == Exists(id)
         l == [NoLoc EXCEPT !.op = "cancel"]
     IN \/ /\ CanFail
           /\ failures' = failures + 1
           /\ Goto(p, "done", [l EXCEPT !.ret = "404 Booking not found"])
        \/ /\ ~found
           /\ UNCHANGED failures
           /\ Goto(p, "done", [l EXCEPT !.ret = "404 Booking not found"])
        \/ /\ found /\ ~Cancellable(bookings[id].status)
           /\ UNCHANGED failures
           /\ Goto(p, "done", [l EXCEPT !.ret = "400 Cannot cancel booking with status"])
        \/ /\ found /\ Cancellable(bookings[id].status) /\ TooLateToCancel(bookings[id])
           /\ UNCHANGED failures
           /\ Goto(p, "done", [l EXCEPT !.ret = "400 Cancellations must be made earlier"])
        \/ /\ found /\ Cancellable(bookings[id].status) /\ ~TooLateToCancel(bookings[id])
           /\ UNCHANGED failures
           /\ Goto(p, "cn_update", [l EXCEPT !.id = id, !.booking = bookings[id]])

\* 1. fetch the booking of this customer, 2. status guard, 3. policy
CancelRead(p, id, customer_id) ==
  /\ pc[p] = "idle"
  /\ UNCHANGED <<slots, services, bookings, nextId, now, env>>
  /\ LET found == Exists(id) /\ bookings[id].customer_id = customer_id
         l == [NoLoc EXCEPT !.op = "cancel"]
     IN \/ /\ CanFail
           /\ failures' = failures + 1
           /\ Goto(p, "done", [l EXCEPT !.ret = "404 Booking not found"])
        \/ /\ ~found
           /\ UNCHANGED failures
           /\ Goto(p, "done", [l EXCEPT !.ret = "404 Booking not found"])
        \/ /\ found /\ ~Cancellable(bookings[id].status)
           /\ UNCHANGED failures
           /\ Goto(p, "done", [l EXCEPT !.ret = "400 Cannot cancel booking with status"])
        \/ /\ found /\ Cancellable(bookings[id].status) /\ TooLateToCancel(bookings[id])
           /\ UNCHANGED failures
           /\ Goto(p, "done", [l EXCEPT !.ret = "400 Cancellations must be made earlier"])
        \/ /\ found /\ Cancellable(bookings[id].status) /\ ~TooLateToCancel(bookings[id])
           /\ UNCHANGED failures
           /\ Goto(p, "cn_update", [l EXCEPT !.id = id, !.booking = bookings[id]])

\* 1. fetch the booking (no ownership check), 2. status guard
AdminCancelRead(p, id) ==
  /\ pc[p] = "idle"
  /\ UNCHANGED <<slots, services, bookings, nextId, now, env>>
  /\ LET l == [NoLoc EXCEPT !.op = "adminCancel"]
     IN \/ /\ CanFail
           /\ failures' = failures + 1
           /\ Goto(p, "done", [l EXCEPT !.ret = "404 Booking not found"])
        \/ /\ ~Exists(id)
           /\ UNCHANGED failures
           /\ Goto(p, "done", [l EXCEPT !.ret = "404 Booking not found"])
        \/ /\ Exists(id) /\ ~Cancellable(bookings[id].status)
           /\ UNCHANGED failures
           /\ Goto(p, "done", [l EXCEPT !.ret = "400 Cannot cancel booking with status"])
        \/ /\ Exists(id) /\ Cancellable(bookings[id].status)
           /\ UNCHANGED failures
           /\ Goto(p, "ac_update", [l EXCEPT !.id = id, !.booking = bookings[id]])

MarkCancelled_KeepExpiry(p) ==
  bookings' = [bookings EXCEPT ![loc[p].id].status = "cancelled"]

\* update bookings set status = cancelled, reservation_expires_at = null
\* where id = id, .select().single(): no row is an error
MarkCancelled(p) ==
  bookings' = [bookings EXCEPT ![loc[p].id].status = "cancelled",
                               ![loc[p].id].reservation_expires_at = NULL]

\* 4. update booking status to cancelled
CancelUpdate(p) ==
  /\ pc[p] = "cn_update"
  /\ UNCHANGED <<slots, services, nextId, now, env>>
  /\ \/ /\ CanFail
        /\ failures' = failures + 1
        /\ UNCHANGED bookings
        /\ Respond(p, "500 Failed to cancel booking")
     \/ /\ ~Exists(loc[p].id)
        /\ UNCHANGED <<failures, bookings>>
        /\ Respond(p, "500 Failed to cancel booking")
     \/ /\ Exists(loc[p].id)
        /\ UNCHANGED failures
        /\ MarkCancelled(p)
        /\ Goto(p, "cn_release", loc[p])

\* 3. update booking status to cancelled
AdminCancelUpdate(p) ==
  /\ pc[p] = "ac_update"
  /\ UNCHANGED <<slots, services, nextId, now, env>>
  /\ \/ /\ CanFail
        /\ failures' = failures + 1
        /\ UNCHANGED bookings
        /\ Respond(p, "500 Failed to cancel booking")
     \/ /\ ~Exists(loc[p].id)
        /\ UNCHANGED <<failures, bookings>>
        /\ Respond(p, "500 Failed to cancel booking")
     \/ /\ Exists(loc[p].id)
        /\ UNCHANGED failures
        /\ MarkCancelled(p)
        /\ Goto(p, "ac_release", loc[p])

\* a release that also takes the slot from its therapist
ReleaseSlot_Unassigns(p) ==
  slots' = [slots EXCEPT ![loc[p].booking.time_slot_id].is_available = TRUE,
                         ![loc[p].booking.time_slot_id].therapist_id = "t2"]

\* update time_slots set is_available = true where id = booking.time_slot_id
ReleaseSlot(p) ==
  slots' = [slots EXCEPT ![loc[p].booking.time_slot_id].is_available = TRUE]

\* 5. free the time slot
CancelRelease(p) ==
  /\ pc[p] = "cn_release"
  /\ UNCHANGED <<services, bookings, nextId, now, env>>
  /\ \/ /\ CanFail
        /\ failures' = failures + 1
        /\ UNCHANGED slots
        /\ Goto(p, "cn_rollback", loc[p])
     \/ /\ UNCHANGED failures
        /\ ReleaseSlot(p)
        /\ RespondData(p, "200", loc[p].id)

\* 4. free the time slot
AdminCancelRelease(p) ==
  /\ pc[p] = "ac_release"
  /\ UNCHANGED <<services, bookings, nextId, now, env>>
  /\ \/ /\ CanFail
        /\ failures' = failures + 1
        /\ UNCHANGED slots
        /\ Goto(p, "ac_rollback", loc[p])
     \/ /\ UNCHANGED failures
        /\ ReleaseSlot(p)
        /\ RespondData(p, "200", loc[p].id)

RestoreStatus_AsPending(p) ==
  bookings' = IF Exists(loc[p].id)
              THEN [bookings EXCEPT
                      ![loc[p].id].status = "pending",
                      ![loc[p].id].reservation_expires_at =
                         loc[p].booking.reservation_expires_at]
              ELSE bookings

RestoreStatus_Only(p) ==
  bookings' = IF Exists(loc[p].id)
              THEN [bookings EXCEPT ![loc[p].id].status = loc[p].booking.status]
              ELSE bookings

\* rollback: update bookings set status, reservation_expires_at to the values
\* read in step 1, where id = id; no row is no error here
StatusOf(bs, id, was) ==
  IF id \in DOMAIN bs
  THEN [bs EXCEPT ![id].status = was.status,
                  ![id].reservation_expires_at = was.reservation_expires_at]
  ELSE bs

RestoreStatus(p) == bookings' = StatusOf(bookings, loc[p].id, loc[p].booking)

CancelRollback(p) ==
  /\ pc[p] = "cn_rollback"
  /\ UNCHANGED <<slots, services, nextId, now, env>>
  /\ \/ /\ RollbackCanFail
        /\ failures' = failures + 1
        /\ UNCHANGED bookings
        /\ RespondLogged(p, "500 Failed to release time slot", loc[p].id)
     \/ /\ UNCHANGED failures
        /\ RestoreStatus(p)
        /\ Respond(p, "500 Failed to release time slot")

AdminCancelRollback(p) ==
  /\ pc[p] = "ac_rollback"
  /\ UNCHANGED <<slots, services, nextId, now, env>>
  /\ \/ /\ RollbackCanFail
        /\ failures' = failures + 1
        /\ UNCHANGED bookings
        /\ RespondLogged(p, "500 Failed to release time slot", loc[p].id)
     \/ /\ UNCHANGED failures
        /\ RestoreStatus(p)
        /\ Respond(p, "500 Failed to release time slot")

(***************************************************************************)
(* adminRescheduleBooking                                                  *)
(***************************************************************************)
\* 1. fetch the booking, 2. status guard
RescheduleRead(p, id, new_time_slot_id) ==
  /\ pc[p] = "idle"
  /\ UNCHANGED <<slots, services, bookings, nextId, now, env>>
  /\ LET l == [NoLoc EXCEPT !.op = "reschedule"]
     IN \/ /\ CanFail
           /\ failures' = failures + 1
           /\ Goto(p, "done", [l EXCEPT !.ret = "404 Booking not found"])
        \/ /\ ~Exists(id)
           /\ UNCHANGED failures
           /\ Goto(p, "done", [l EXCEPT !.ret = "404 Booking not found"])
        \/ /\ Exists(id) /\ ~Cancellable(bookings[id].status)
           /\ UNCHANGED failures
           /\ Goto(p, "done", [l EXCEPT !.ret = "400 Cannot reschedule booking with status"])
        \/ /\ Exists(id) /\ Cancellable(bookings[id].status)
           /\ UNCHANGED failures
           /\ Goto(p, "rs_slot", [l EXCEPT !.id = id, !.booking = bookings[id],
                                           !.time_slot_id = new_time_slot_id])

RescheduleReadSlot_AnySlot(p) ==
  /\ pc[p] = "rs_slot"
  /\ UNCHANGED <<slots, services, bookings, nextId, now, env>>
  /\ LET newSlot == SlotRow(loc[p].time_slot_id)
         slotFound == /\ loc[p].time_slot_id \in SlotIds
                      /\ newSlot.therapist_id = loc[p].booking.therapist_id
         slotDuration == getTimeDuration(newSlot.start_time, newSlot.end_time)
     IN \/ /\ CanFail
           /\ failures' = failures + 1
           /\ Respond(p, "400 New time slot not available or does not exist")
        \/ /\ ~slotFound
           /\ UNCHANGED failures
           /\ Respond(p, "400 New time slot not available or does not exist")
        \/ /\ slotFound /\ slotDuration < loc[p].booking.service_duration
           /\ UNCHANGED failures
           /\ Respond(p, "400 New time slot is too short for this service")
        \/ /\ slotFound /\ slotDuration >= loc[p].booking.service_duration
           /\ UNCHANGED failures
           /\ Goto(p, "rs_update", [loc[p] EXCEPT !.timeSlot = newSlot])

\* 3. fetch the new time slot: same therapist, available, long enough
RescheduleReadSlot(p) ==
  /\ pc[p] = "rs_slot"
  /\ UNCHANGED <<slots, services, bookings, nextId, now, env>>
  /\ LET newSlot == SlotRow(loc[p].time_slot_id)
         slotFound == /\ loc[p].time_slot_id \in SlotIds
                      /\ newSlot.therapist_id = loc[p].booking.therapist_id
                      /\ newSlot.is_available
         slotDuration == getTimeDuration(newSlot.start_time, newSlot.end_time)
     IN \/ /\ CanFail
           /\ failures' = failures + 1
           /\ Respond(p, "400 New time slot not available or does not exist")
        \/ /\ ~slotFound
           /\ UNCHANGED failures
           /\ Respond(p, "400 New time slot not available or does not exist")
        \/ /\ slotFound /\ slotDuration < loc[p].booking.service_duration
           /\ UNCHANGED failures
           /\ Respond(p, "400 New time slot is too short for this service")
        \/ /\ slotFound /\ slotDuration >= loc[p].booking.service_duration
           /\ UNCHANGED failures
           /\ Goto(p, "rs_update", [loc[p] EXCEPT !.timeSlot = newSlot])

MoveBooking_SlotOnly(id, time_slot_id, slot_date, start_time, end_time) ==
  bookings' = IF Exists(id)
              THEN [bookings EXCEPT ![id].time_slot_id = time_slot_id]
              ELSE bookings

\* update bookings set time_slot_id, booking_date, start_time, end_time where id = id
\* an update that leaves end_time as it was
Moved_KeepEnd(bs, id, time_slot_id, slot_date, start_time, end_time) ==
  IF id \in DOMAIN bs
  THEN [bs EXCEPT ![id].time_slot_id = time_slot_id,
                  ![id].booking_date = slot_date,
                  ![id].start_time = start_time]
  ELSE bs

Moved(bs, id, time_slot_id, slot_date, start_time, end_time) ==
  IF id \in DOMAIN bs
  THEN [bs EXCEPT ![id].time_slot_id = time_slot_id,
                  ![id].booking_date = slot_date,
                  ![id].start_time = start_time,
                  ![id].end_time = end_time]
  ELSE bs

MoveBooking(id, time_slot_id, slot_date, start_time, end_time) ==
  bookings' = Moved(bookings, id, time_slot_id, slot_date, start_time, end_time)

\* an update that writes the whole row as it was read in step 1, with the
\* new slot, date and times
RescheduleUpdate_WritesRowBack(p) ==
  /\ pc[p] = "rs_update"
  /\ UNCHANGED <<slots, services, nextId, now, env>>
  /\ \/ /\ CanFail
        /\ failures' = failures + 1
        /\ UNCHANGED bookings
        /\ Respond(p, "500 Failed to reschedule booking")
     \/ /\ ~Exists(loc[p].id)
        /\ UNCHANGED <<failures, bookings>>
        /\ Respond(p, "500 Failed to reschedule booking")
     \/ /\ Exists(loc[p].id)
        /\ UNCHANGED failures
        /\ bookings' = [bookings EXCEPT ![loc[p].id] =
                          [loc[p].booking EXCEPT
                             !.time_slot_id = loc[p].time_slot_id,
                             !.booking_date = loc[p].timeSlot.slot_date,
                             !.start_time = loc[p].timeSlot.start_time,
                             !.end_time = loc[p].timeSlot.end_time]]
        /\ Goto(p, "rs_free", loc[p])

\* 4. update the booking first; .select().single(): no row is an error
RescheduleUpdate(p) ==
  /\ pc[p] = "rs_update"
  /\ UNCHANGED <<slots, services, nextId, now, env>>
  /\ \/ /\ CanFail
        /\ failures' = failures + 1
        /\ UNCHANGED bookings
        /\ Respond(p, "500 Failed to reschedule booking")
     \/ /\ ~Exists(loc[p].id)
        /\ UNCHANGED <<failures, bookings>>
        /\ Respond(p, "500 Failed to reschedule booking")
     \/ /\ Exists(loc[p].id)
        /\ UNCHANGED failures
        /\ MoveBooking(loc[p].id, loc[p].time_slot_id, loc[p].timeSlot.slot_date,
                       loc[p].timeSlot.start_time, loc[p].timeSlot.end_time)
        /\ Goto(p, "rs_free", loc[p])

\* 5. free the old time slot
RescheduleFreeOld(p) ==
  /\ pc[p] = "rs_free"
  /\ UNCHANGED <<services, bookings, nextId, now, env>>
  /\ \/ /\ CanFail
        /\ failures' = failures + 1
        /\ UNCHANGED slots
        /\ Goto(p, "rs_undo_update", loc[p])
     \/ /\ UNCHANGED failures
        /\ ReleaseSlot(p)
        /\ Goto(p, "rs_reserve", loc[p])

RestoreBooking_KeepTimes(p) ==
  MoveBooking(loc[p].id, loc[p].booking.time_slot_id, loc[p].timeSlot.slot_date,
              loc[p].timeSlot.start_time, loc[p].timeSlot.end_time)

\* rollback: restore the booking to the old slot
RestoreBooking(p) ==
  MoveBooking(loc[p].id, loc[p].booking.time_slot_id, loc[p].booking.booking_date,
              loc[p].booking.start_time, loc[p].booking.end_time)

\* rollback of step 4 after step 5 failed
RescheduleUndoUpdate(p) ==
  /\ pc[p] = "rs_undo_update"
  /\ UNCHANGED <<slots, services, nextId, now, env>>
  /\ \/ /\ RollbackCanFail
        /\ failures' = failures + 1
        /\ UNCHANGED bookings
        /\ RespondLogged(p, "500 Failed to free old time slot", loc[p].id)
     \/ /\ UNCHANGED failures
        /\ RestoreBooking(p)
        /\ Respond(p, "500 Failed to free old time slot")

\* update time_slots set is_available = false where id = new_time_slot_id
ReserveNewSlot(p) ==
  slots' = [slots EXCEPT ![loc[p].time_slot_id].is_available = FALSE]

\* 6. reserve the new time slot
RescheduleReserveNew(p) ==
  /\ pc[p] = "rs_reserve"
  /\ UNCHANGED <<services, bookings, nextId, now, env>>
  /\ \/ /\ CanFail
        /\ failures' = failures + 1
        /\ UNCHANGED slots
        /\ Goto(p, "rs_undo_booking", loc[p])
     \/ /\ UNCHANGED failures
        /\ ReserveNewSlot(p)
        /\ RespondData(p, "200", loc[p].id)

\* rollback after step 6 failed, first await: restore the booking
RescheduleUndoBooking(p) ==
  /\ pc[p] = "rs_undo_booking"
  /\ UNCHANGED <<slots, services, nextId, now, env>>
  /\ Goto(p, "rs_undo_slot", loc[p])
  /\ \/ /\ RollbackCanFail
        /\ failures' = failures + 1
        /\ UNCHANGED bookings
     \/ /\ UNCHANGED failures
        /\ RestoreBooking(p)

\* update time_slots set is_available = value where id = s
Available(sl, s, value) == [sl EXCEPT ![s].is_available = value]

\* rollback after step 6 failed, second await: re-reserve the old slot
RescheduleUndoSlot(p) ==
  /\ pc[p] = "rs_undo_slot"
  /\ UNCHANGED <<services, bookings, nextId, now, env>>
  /\ Respond(p, "500 Failed to reserve new time slot")
  /\ \/ /\ RollbackCanFail
        /\ failures' = failures + 1
        /\ UNCHANGED slots
     \/ /\ UNCHANGED failures
        /\ slots' = Available(slots, loc[p].booking.time_slot_id, FALSE)

(***************************************************************************)
(* cleanupExpiredReservations                                              *)
(***************************************************************************)
IsExpiredPending_Lte(b, at) ==
  /\ b.status = "pending"
  /\ b.reservation_expires_at <= at
  /\ b.reservation_expires_at # NULL

\* status = pending, reservation_expires_at < now, reservation_expires_at not
\* null, where now is the value the run has passed to the filter
IsExpiredPending(b, at) ==
  /\ b.status = "pending"
  /\ b.reservation_expires_at < at
  /\ b.reservation_expires_at # NULL

\* the run begins: const now = new Date().toISOString(), and the select is
\* sent
SweepBegin(p) ==
  /\ Goto(p, "sw_select", [NoLoc EXCEPT !.op = "sweep", !.now = now])
  /\ UNCHANGED <<slots, services, bookings, nextId, now, failures, env>>

\* a run that the scheduler starts, or a caller outside a request
SweepStart(p) ==
  /\ pc[p] = "idle"
  /\ SweepBegin(p)

\* step 1: find the PENDING bookings (id, time_slot_id) that had expired
\* when the run began
SweepSelect(p) ==
  /\ pc[p] = "sw_select"
  /\ UNCHANGED <<slots, services, bookings, nextId, now, env>>
  /\ LET expiredBookings ==
           {[id |-> i, time_slot_id |-> bookings[i].time_slot_id] :
              i \in {j \in DOMAIN bookings : IsExpiredPending(bookings[j], loc[p].now)}}
         l == [NoLoc EXCEPT !.op = "sweep"]
     IN \/ /\ CanFail
           /\ failures' = failures + 1
           /\ Goto(p, "done", [l EXCEPT !.ret = "0"])
        \/ /\ expiredBookings = {}
           /\ UNCHANGED failures
           /\ Goto(p, "done", [l EXCEPT !.ret = "0"])
        \/ /\ expiredBookings # {}
           /\ UNCHANGED failures
           /\ Goto(p, "sw_delete", [l EXCEPT !.selected = expiredBookings,
                                             !.now = loc[p].now])

\* a delete whose filter matches no row
DeleteSelected_NoMatch(p) == bookings' = bookings

\* step 3: delete ... where id in expiredIds
DeleteSelected(p) ==
  LET expiredIds == {b.id : b \in loc[p].selected}
  IN bookings' = [i \in DOMAIN bookings \ expiredIds |-> bookings[i]]

SweepDelete(p) ==
  /\ pc[p] = "sw_delete"
  /\ UNCHANGED <<slots, services, nextId, now, env>>
  /\ \/ /\ CanFail
        /\ failures' = failures + 1
        /\ UNCHANGED bookings
        /\ Respond(p, "0")
     \/ /\ UNCHANGED failures
        /\ DeleteSelected(p)
        /\ Goto(p, "sw_release", loc[p])

\* a release whose failure makes the run return 0
SweepRelease_ZeroOnError(p) ==
  /\ pc[p] = "sw_release"
  /\ UNCHANGED <<services, bookings, nextId, now, env>>
  /\ LET timeSlotIds == {b.time_slot_id : b \in loc[p].selected}
     IN \/ /\ CanFail
           /\ failures' = failures + 1
           /\ UNCHANGED slots
           /\ Respond(p, "0")
        \/ /\ UNCHANGED failures
           /\ slots' = [s \in SlotIds |->
                          IF s \in timeSlotIds
                          THEN [slots[s] EXCEPT !.is_available = TRUE]
                          ELSE slots[s]]
           /\ Goto(p, "done", [NoLoc EXCEPT !.op = "sweep", !.ret = "count",
                                            !.count = Cardinality(loc[p].selected)])

\* step 4: update time_slots set is_available = true where id in timeSlotIds;
\* an error is logged and the count is returned all the same
SweepRelease(p) ==
  /\ pc[p] = "sw_release"
  /\ UNCHANGED <<services, bookings, nextId, now, env>>
  /\ LET timeSlotIds == {b.time_slot_id : b \in loc[p].selected}
     IN /\ Goto(p, "done", [NoLoc EXCEPT !.op = "sweep", !.ret = "count",
                                         !.count = Cardinality(loc[p].selected)])
        /\ \/ /\ CanFail
              /\ failures' = failures + 1
              /\ UNCHANGED slots
           \/ /\ UNCHANGED failures
              /\ slots' = [s \in SlotIds |->
                             IF s \in timeSlotIds
                             THEN [slots[s] EXCEPT !.is_available = TRUE]
                             ELSE slots[s]]

(***************************************************************************)
(* sendDailyReminders, sendBookingReminder, sendEmail                      *)
(***************************************************************************)
\* tomorrow.setDate(tomorrow.getDate() + 1) on the local time of new Date(),
\* and the local year, month and day of the result as YYYY-MM-DD
tomorrowStr ==
  LET tomorrow == UTC(LocalTime(now) + MinutesPerDay)
  IN DateOfDay(LocalTime(tomorrow) \div MinutesPerDay)

\* what sendEmail does with one message: no API key (skipped, false),
\* sgMail.send throws (failed, false), sgMail.send returns (sent, true)
Deliveries == {"skipped", "failed", "sent"}
sendEmail(delivery) == delivery = "sent"

\* results.customer || results.therapist
sendBookingReminder(toCustomer, toTherapist) ==
  [customer |-> sendEmail(toCustomer), therapist |-> sendEmail(toTherapist)]

\* the job begins: tomorrowStr is computed, and the select is sent
ReminderStart(p) ==
  /\ pc[p] = "idle"
  /\ Goto(p, "rm_select", [NoLoc EXCEPT !.op = "remind", !.tomorrowStr = tomorrowStr])
  /\ UNCHANGED <<slots, services, bookings, nextId, now, failures, env>>

\* fetch all confirmed bookings of the day computed when the job began
ReminderSelect(p) ==
  /\ pc[p] = "rm_select"
  /\ UNCHANGED <<slots, services, bookings, nextId, now, env>>
  /\ LET found == {[id |-> i, time_slot_id |-> bookings[i].time_slot_id] :
                     i \in {j \in DOMAIN bookings :
                              /\ bookings[j].status = "confirmed"
                              /\ bookings[j].booking_date = loc[p].tomorrowStr}}
         l == [NoLoc EXCEPT !.op = "remind"]
     IN \/ /\ CanFail
           /\ failures' = failures + 1
           /\ Goto(p, "done", [l EXCEPT !.ret = "success: false"])
        \/ /\ found = {}
           /\ UNCHANGED failures
           /\ Goto(p, "done", [l EXCEPT !.ret = "success: true"])
        \/ /\ found # {}
           /\ UNCHANGED failures
           /\ Goto(p, "rm_send", [l EXCEPT !.selected = found,
                                           !.found = Cardinality(found)])

\* a turn of the loop, first await: the message to the customer of booking b
ReminderSendCustomer(p, b, toCustomer) ==
  /\ pc[p] = "rm_send"
  /\ b \in loc[p].selected
  /\ UNCHANGED <<slots, services, bookings, nextId, now, failures, env>>
  /\ Goto(p, "rm_therapist", [loc[p] EXCEPT !.id = b.id, !.delivery = toCustomer])

\* a second await that puts the booking back to pending when neither
\* message was delivered
ReminderSendTherapist_RollsBack(p, toTherapist) ==
  /\ pc[p] = "rm_therapist"
  /\ UNCHANGED <<slots, services, nextId, now, failures, env>>
  /\ LET result == sendBookingReminder(loc[p].delivery, toTherapist)
         sentCount == IF result.customer \/ result.therapist
                      THEN loc[p].count + 1 ELSE loc[p].count
     IN /\ bookings' = IF sentCount = loc[p].count /\ Exists(loc[p].id)
                       THEN [bookings EXCEPT ![loc[p].id].status = "pending"]
                       ELSE bookings
        /\ Goto(p, "rm_wait", [loc[p] EXCEPT !.delivery = "", !.count = sentCount])

\* second await: the message to the therapist; the booking counts as
\* reminded when one of the two messages was sent
ReminderSendTherapist(p, toTherapist) ==
  /\ pc[p] = "rm_therapist"
  /\ UNCHANGED <<slots, services, bookings, nextId, now, failures, env>>
  /\ LET result == sendBookingReminder(loc[p].delivery, toTherapist)
         sentCount == IF result.customer \/ result.therapist
                      THEN loc[p].count + 1 ELSE loc[p].count
     IN Goto(p, "rm_wait", [loc[p] EXCEPT !.delivery = "", !.count = sentCount])

\* third await: the delay of 100 ms, then the next booking or the end
ReminderWait(p) ==
  /\ pc[p] = "rm_wait"
  /\ UNCHANGED <<slots, services, bookings, nextId, now, failures, env>>
  /\ LET rest == {b \in loc[p].selected : b.id # loc[p].id}
     IN IF rest = {}
        THEN Goto(p, "done", [NoLoc EXCEPT !.op = "remind", !.ret = "success: true",
                                           !.found = loc[p].found, !.count = loc[p].count])
        ELSE Goto(p, "rm_send", [loc[p] EXCEPT !.selected = rest, !.id = 0])

(***************************************************************************)
(* The requests as they arrive: identifiers are the values of req.params   *)
(* and req.body, a string (its characters), a number or undefined.  Each   *)
(* handler is modelled from its first line to its first store call, where  *)
(* the definitions above take over with the rows the identifiers name.     *)
(***************************************************************************)
RECURSIVE Rep(_, _)
Rep(c, n) == IF n = 0 THEN <<>> ELSE <<c>> \o Rep(c, n - 1)

Str(chars) == [type |-> "string", chars |-> chars]
Undefined == [type |-> "undefined", chars |-> <<>>]
Null == [type |-> "null", chars |-> <<>>]
Num42 == [type |-> "number", chars |-> <<"4", "2">>]
Num0 == [type |-> "number", chars |-> <<"0">>]
NumNaN == [type |-> "number", chars |-> <<"N", "a", "N">>]
False == [type |-> "boolean", chars |-> <<"f", "a", "l", "s", "e">>]

\* "00000000-0000-V000-Y000-00000000000L"
Uuid(version, variant, last) ==
  Str(Rep("0", 8) \o <<"-">> \o Rep("0", 4) \o <<"-", version>> \o Rep("0", 3)
      \o <<"-", variant>> \o Rep("0", 3) \o <<"-">> \o Rep("0", 11) \o <<last>>)

HexDigits ==
  {"0", "1", "2", "3", "4", "5", "6", "7", "8", "9",
   "a", "b", "c", "d", "e", "f", "A", "B", "C", "D", "E", "F"}

\* /^[0-9a-f]{8}-[0-9a-f]{4}-4[0-9a-f]{3}-[89ab][0-9a-f]{3}-[0-9a-f]{12}$/i
isValidUUID(str) ==
  /\ str.type = "string"
  /\ Len(str.chars) = 36
  /\ \A i \in 1..36 :
       IF i \in {9, 14, 19, 24} THEN str.chars[i] = "-"
       ELSE IF i = 15 THEN str.chars[i] = "4"
       ELSE IF i = 20 THEN str.chars[i] \in {"8", "9", "a", "b", "A", "B"}
       ELSE str.chars[i] \in HexDigits

\* !value: undefined, null, "", 0, -0, NaN and false
Falsy(value) ==
  \/ value.type \in {"undefined", "null"}
  \/ value.type = "string" /\ value.chars = <<>>
  \/ value.type = "number" /\ value.chars \in {<<"0">>, <<"-", "0">>, <<"N", "a", "N">>}
  \/ value.type = "boolean" /\ value.chars = <<"f", "a", "l", "s", "e">>

\* the identifiers of the rows of the model
Booking1Id == Uuid("4", "8", "1")
Booking2Id == Uuid("4", "9", "2")
SlotAId == Uuid("4", "a", "a")
SlotBId == Uuid("4", "8", "b")
Service60Id == Uuid("4", "b", "6")
Service90Id == Uuid("4", "B", "9")
Therapist1Id == Uuid("4", "8", "1")

\* a well-formed identifier that names no row, and values that are no
\* identifiers: version 1, a variant digit 7, a letter g, too short
UnknownId == Uuid("4", "8", "f")
Version1Id == Uuid("1", "8", "1")
Variant7Id == Uuid("4", "7", "a")
NonHexId == Uuid("4", "8", "g")
ShortId == Str(<<"1">>)

\* the rows the identifiers name; 0 is no booking
BookingOf(raw) == IF raw = Booking1Id THEN 1 ELSE IF raw = Booking2Id THEN 2 ELSE 0
SlotOf(raw) == IF raw = SlotAId THEN "A" ELSE IF raw = SlotBId THEN "B" ELSE NoRow
ServiceOf(raw) ==
  IF raw = Service60Id THEN "s60" ELSE IF raw = Service90Id THEN "s90" ELSE NoRow
TherapistOf(raw) == IF raw = Therapist1Id THEN "t1" ELSE NoRow

\* errorResponse(res, 400, ...) before any store call
Reject(p, op, r) ==
  /\ pc[p] = "idle"
  /\ Goto(p, "done", [NoLoc EXCEPT !.op = op, !.ret = r])
  /\ UNCHANGED <<slots, services, bookings, nextId, now, failures, env>>

createReservation(p, customer_id, service_id, therapist_id, time_slot_id) ==
  IF Falsy(service_id) \/ Falsy(therapist_id) \/ Falsy(time_slot_id)
  THEN Reject(p, "create", "400 Missing required fields")
  ELSE IF ~isValidUUID(service_id) \/ ~isValidUUID(therapist_id) \/ ~isValidUUID(time_slot_id)
       THEN Reject(p, "create", "400 Invalid UUID format")
       ELSE CreateStart(p, customer_id, ServiceOf(service_id), TherapistOf(therapist_id),
                        SlotOf(time_slot_id))

\* no check of req.params.id: the first statement is the select
confirmReservation(p, id, customer_id) == ConfirmRead(p, BookingOf(id), customer_id)

\* no check of req.params.id: the first statement is the select
cancelReservation(p, id, customer_id) == CancelRead(p, BookingOf(id), customer_id)

adminCancelBooking(p, id) ==
  IF ~isValidUUID(id)
  THEN Reject(p, "adminCancel", "400 Invalid UUID format")
  ELSE AdminCancelRead(p, BookingOf(id))

adminRescheduleBooking(p, id, new_time_slot_id) ==
  IF ~isValidUUID(id)
  THEN Reject(p, "reschedule", "400 Invalid UUID format")
  ELSE IF Falsy(new_time_slot_id)
       THEN Reject(p, "reschedule", "400 Missing required fields")
       ELSE IF ~isValidUUID(new_time_slot_id)
            THEN Reject(p, "reschedule", "400 Invalid UUID format")
            ELSE RescheduleRead(p, BookingOf(id), SlotOf(new_time_slot_id))

(***************************************************************************)
(* the response has been sent and read: the handler is over                *)
(***************************************************************************)
Finish(p) ==
  /\ pc[p] = "done"
  /\ pc' = [pc EXCEPT ![p] = "idle"]
  /\ loc' = [loc EXCEPT ![p] = NoLoc]
  /\ UNCHANGED <<slots, services, bookings, nextId, now, failures, env>>

\* the clock
Tick ==
  /\ now < MaxTime
  /\ now' = now + 1
  /\ UNCHANGED <<slots, services, bookings, nextId, failures, env, pc, loc>>

(***************************************************************************)
(* Specifications.  Spec: the life of holds, two requests at a time over   *)
(* up to MaxBookings holds (create, confirm, the sweeper).  SpecAll: every *)
(* handler, two requests at a time, over one hold.                         *)
(***************************************************************************)
\* the services and the therapist asked for where requests run side by side:
\* the services on offer and the therapist of the slots; a request for a
\* retired service or for another therapist is made in SpecSeq
ServicesAsked == {"s60", "s90"}
TherapistsAsked == {"t1"}

\* the one service asked for where the service plays no part (SpecAll,
\* SpecNotify, SpecRace)
ServiceAsked == {"s60"}

Next ==
  \/ \E p \in Procs, c \in Holders, sv \in ServicesAsked, t \in TherapistsAsked, s \in SlotIds :
       CreateStart(p, c, sv, t, s)
  \/ \E p \in Procs : CreateReadSlot(p)
  \/ \E p \in Procs : CreateReadService(p)
  \/ \E p \in Procs : CreateInsert(p)
  \/ \E p \in Procs : CreateClaim(p)
  \/ \E p \in Procs : CreateRollback(p)
  \/ \E p \in Procs, id \in BookingIds, c \in Customers : ConfirmRead(p, id, c)
  \/ \E p \in Procs : ConfirmUpdate(p)
  \/ \E p \in Procs : SweepStart(p)
  \/ \E p \in Procs : SweepSelect(p)
  \/ \E p \in Procs : SweepDelete(p)
  \/ \E p \in Procs : SweepRelease(p)
  \/ \E p \in Procs : Finish(p)
  \/ Tick

Spec == Init /\ [][Next]_vars

\* the first hold of a run
MaxHolds == 1
CreateFirst(p) == nextId <= MaxHolds /\ CreateInsert(p)

NextAll ==
  \/ \E p \in Procs, c \in Holders, sv \in ServiceAsked, t \in TherapistsAsked, s \in SlotIds :
       CreateStart(p, c, sv, t, s)
  \/ \E p \in Procs : CreateReadSlot(p)
  \/ \E p \in Procs : CreateReadService(p)
  \/ \E p \in Procs : CreateFirst(p)
  \/ \E p \in Procs : CreateClaim(p)
  \/ \E p \in Procs : CreateRollback(p)
  \/ \E p \in Procs, id \in BookingIds, c \in Customers : ConfirmRead(p, id, c)
  \/ \E p \in Procs : ConfirmUpdate(p)
  \/ \E p \in Procs, id \in BookingIds, c \in Customers : CancelRead(p, id, c)
  \/ \E p \in Procs : CancelUpdate(p)
  \/ \E p \in Procs : CancelRelease(p)
  \/ \E p \in Procs : CancelRollback(p)
  \/ \E p \in Procs, id \in BookingIds : AdminCancelRead(p, id)
  \/ \E p \in Procs : AdminCancelUpdate(p)
  \/ \E p \in Procs : AdminCancelRelease(p)
  \/ \E p \in Procs : AdminCancelRollback(p)
  \/ \E p \in Procs, id \in BookingIds, s \in SlotIds : RescheduleRead(p, id, s)
  \/ \E p \in Procs : RescheduleReadSlot(p)
  \/ \E p \in Procs : RescheduleUpdate(p)
  \/ \E p \in Procs : RescheduleFreeOld(p)
  \/ \E p \in Procs : RescheduleUndoUpdate(p)
  \/ \E p \in Procs : RescheduleReserveNew(p)
  \/ \E p \in Procs : RescheduleUndoBooking(p)
  \/ \E p \in Procs : RescheduleUndoSlot(p)
  \/ \E p \in Procs : SweepStart(p)
  \/ \E p \in Procs : SweepSelect(p)
  \/ \E p \in Procs : SweepDelete(p)
  \/ \E p \in Procs : SweepRelease(p)
  \/ \E p \in Procs : Finish(p)
  \/ Tick

SpecAll == Init /\ [][NextAll]_vars

\* SpecSeq: every handler over up to MaxBookings holds, one request at a
\* time: each call runs from its first store call to its response with no
\* other handler in between.
Single == {"p1"}

NextSeq ==
  \/ \E p \in Single, c \in Customers, sv \in ServiceIds, t \in Therapists, s \in SlotIds :
       CreateStart(p, c, sv, t, s)
  \/ \E p \in Single : CreateReadSlot(p)
  \/ \E p \in Single : CreateReadService(p)
  \/ \E p \in Single : CreateInsert(p)
  \/ \E p \in Single : CreateClaim(p)
  \/ \E p \in Single : CreateRollback(p)
  \/ \E p \in Single, id \in BookingIds, c \in Customers : ConfirmRead(p, id, c)
  \/ \E p \in Single : ConfirmUpdate(p)
  \/ \E p \in Single, id \in BookingIds, c \in Customers : CancelRead(p, id, c)
  \/ \E p \in Single : CancelUpdate(p)
  \/ \E p \in Single : CancelRelease(p)
  \/ \E p \in Single : CancelRollback(p)
  \/ \E p \in Single, id \in BookingIds : AdminCancelRead(p, id)
  \/ \E p \in Single : AdminCancelUpdate(p)
  \/ \E p \in Single : AdminCancelRelease(p)
  \/ \E p \in Single : AdminCancelRollback(p)
  \/ \E p \in Single, id \in BookingIds, s \in SlotIds : RescheduleRead(p, id, s)
  \/ \E p \in Single : RescheduleReadSlot(p)
  \/ \E p \in Single : RescheduleUpdate(p)
  \/ \E p \in Single : RescheduleFreeOld(p)
  \/ \E p \in Single : RescheduleUndoUpdate(p)
  \/ \E p \in Single : RescheduleReserveNew(p)
  \/ \E p \in Single : RescheduleUndoBooking(p)
  \/ \E p \in Single : RescheduleUndoSlot(p)
  \/ \E p \in Single : SweepStart(p)
  \/ \E p \in Single : SweepSelect(p)
  \/ \E p \in Single : SweepDelete(p)
  \/ \E p \in Single : SweepRelease(p)
  \/ \E p \in Single : Finish(p)
  \/ Tick

SpecSeq == Init /\ [][NextSeq]_vars

\* SpecCancel: the life of one customer's bookings (create, confirm, cancel),
\* one request at a time, under each of the configurations of Configs: no
\* policy, a notice of 0, 1, 2 and 25 hours, in UTC, in a zone behind UTC and
\* in a zone whose clocks are set back, with slot B on the first or on the
\* second day.
Configs ==
  [RESERVATION_TIMEOUT_MINUTES : {<<1>>},
   MIN_CANCEL_HOURS : {<<>>, <<0>>, <<1>>, <<2>>, <<25>>},
   TZ : {ZoneUTC, ZoneWest, ZoneFallBack}]

CancelSlots == {InitSlots, [InitSlots EXCEPT !["B"].slot_date = "d2"]}

InitCancel ==
  /\ slots \in CancelSlots
  /\ services = InitServices
  /\ bookings = <<>>
  /\ nextId = 1
  /\ now = 0
  /\ failures = 0
  /\ env \in Configs
  /\ pc = [p \in Procs |-> "idle"]
  /\ loc = [p \in Procs |-> NoLoc]

NextCancel ==
  \/ \E p \in Single, c \in Holders, sv \in ServiceAsked, t \in TherapistsAsked, s \in SlotIds :
       CreateStart(p, c, sv, t, s)
  \/ \E p \in Single : CreateReadSlot(p)
  \/ \E p \in Single : CreateReadService(p)
  \/ \E p \in Single : CreateInsert(p)
  \/ \E p \in Single : CreateClaim(p)
  \/ \E p \in Single : CreateRollback(p)
  \/ \E p \in Single, id \in BookingIds, c \in Customers : ConfirmRead(p, id, c)
  \/ \E p \in Single : ConfirmUpdate(p)
  \/ \E p \in Single, id \in BookingIds, c \in Customers : CancelRead(p, id, c)
  \/ \E p \in Single : CancelUpdate(p)
  \/ \E p \in Single : CancelRelease(p)
  \/ \E p \in Single : CancelRollback(p)
  \/ \E p \in Single : Finish(p)
  \/ Tick

SpecCancel == InitCancel /\ [][NextCancel]_vars

\* SpecZone: the holds of one customer, made one request at a time by a
\* process in each of the zones of Zones, and the cleanup job.
InitZone ==
  /\ slots = InitSlots
  /\ services = InitServices
  /\ bookings = <<>>
  /\ nextId = 1
  /\ now = 0
  /\ failures = 0
  /\ env \in [RESERVATION_TIMEOUT_MINUTES : {<<1>>}, MIN_CANCEL_HOURS : {<<1>>}, TZ : Zones]
  /\ pc = [p \in Procs |-> "idle"]
  /\ loc = [p \in Procs |-> NoLoc]

NextZone ==
  \/ \E p \in Single, c \in Holders, sv \in ServicesAsked, t \in TherapistsAsked, s \in SlotIds :
       CreateStart(p, c, sv, t, s)
  \/ \E p \in Single : CreateReadSlot(p)
  \/ \E p \in Single : CreateReadService(p)
  \/ \E p \in Single : CreateInsert(p)
  \/ \E p \in Single : CreateClaim(p)
  \/ \E p \in Single : CreateRollback(p)
  \/ \E p \in Single : SweepStart(p)
  \/ \E p \in Single : SweepSelect(p)
  \/ \E p \in Single : SweepDelete(p)
  \/ \E p \in Single : SweepRelease(p)
  \/ \E p \in Single : Finish(p)
  \/ Tick

SpecZone == InitZone /\ [][NextZone]_vars

\* SpecLive: one hold, its holder's and the admin's requests served by one
\* handler, and the cleanup job of the scheduler as a task of its own that
\* cron starts again and again.  Every started call runs on to its answer.
Client == "p1"
Sweeper == "p2"

ClientStarts ==
  \/ \E c \in Holders, sv \in ServicesAsked, t \in TherapistsAsked, s \in SlotIds :
       CreateStart(Client, c, sv, t, s)
  \/ \E id \in BookingIds, c \in Customers : ConfirmRead(Client, id, c)
  \/ \E id \in BookingIds, c \in Customers : CancelRead(Client, id, c)
  \/ \E id \in BookingIds, s \in SlotIds : RescheduleRead(Client, id, s)

ClientContinues ==
  \/ CreateReadSlot(Client)
  \/ CreateReadService(Client)
  \/ CreateFirst(Client)
  \/ CreateClaim(Client)
  \/ CreateRollback(Client)
  \/ ConfirmUpdate(Client)
  \/ CancelUpdate(Client)
  \/ CancelRelease(Client)
  \/ CancelRollback(Client)
  \/ RescheduleReadSlot(Client)
  \/ RescheduleUpdate(Client)
  \/ RescheduleFreeOld(Client)
  \/ RescheduleUndoUpdate(Client)
  \/ RescheduleReserveNew(Client)
  \/ RescheduleUndoBooking(Client)
  \/ RescheduleUndoSlot(Client)
  \/ Finish(Client)

CleanupJob ==
  \/ SweepStart(Sweeper)
  \/ SweepSelect(Sweeper)
  \/ SweepDelete(Sweeper)
  \/ SweepRelease(Sweeper)
  \/ Finish(Sweeper)

NextLive ==
  \/ ClientStarts
  \/ ClientContinues
  \/ CleanupJob
  \/ Tick

SpecLive ==
  /\ Init
  /\ [][NextLive]_vars
  /\ WF_vars(ClientContinues)
  /\ WF_vars(CleanupJob)

\* SpecRequests: the five handlers from the arrival of the request, one
\* request at a time, with identifiers that name rows, that name no row and
\* that are malformed or missing.
IdsSent == {Booking1Id, Booking2Id, UnknownId, Version1Id, NonHexId, ShortId}
ServiceIdsSent == {Service60Id, Undefined, ShortId}
TherapistIdsSent == {Therapist1Id, UnknownId, Str(<<>>), Num42, Num0}
SlotIdsSent == {SlotAId, SlotBId, UnknownId, Undefined, Variant7Id}

NextRequests ==
  \/ \E p \in Single, c \in Holders, sv \in ServiceIdsSent, t \in TherapistIdsSent,
        s \in SlotIdsSent : createReservation(p, c, sv, t, s)
  \/ \E p \in Single : CreateReadSlot(p)
  \/ \E p \in Single : CreateReadService(p)
  \/ \E p \in Single : CreateInsert(p)
  \/ \E p \in Single : CreateClaim(p)
  \/ \E p \in Single : CreateRollback(p)
  \/ \E p \in Single, id \in IdsSent, c \in Customers : confirmReservation(p, id, c)
  \/ \E p \in Single : ConfirmUpdate(p)
  \/ \E p \in Single, id \in IdsSent, c \in Customers : cancelReservation(p, id, c)
  \/ \E p \in Single : CancelUpdate(p)
  \/ \E p \in Single : CancelRelease(p)
  \/ \E p \in Single : CancelRollback(p)
  \/ \E p \in Single, id \in IdsSent : adminCancelBooking(p, id)
  \/ \E p \in Single : AdminCancelUpdate(p)
  \/ \E p \in Single : AdminCancelRelease(p)
  \/ \E p \in Single : AdminCancelRollback(p)
  \/ \E p \in Single, id \in IdsSent, s \in SlotIdsSent : adminRescheduleBooking(p, id, s)
  \/ \E p \in Single : RescheduleReadSlot(p)
  \/ \E p \in Single : RescheduleUpdate(p)
  \/ \E p \in Single : RescheduleFreeOld(p)
  \/ \E p \in Single : RescheduleUndoUpdate(p)
  \/ \E p \in Single : RescheduleReserveNew(p)
  \/ \E p \in Single : RescheduleUndoBooking(p)
  \/ \E p \in Single : RescheduleUndoSlot(p)
  \/ \E p \in Single : Finish(p)

SpecRequests == Init /\ [][NextRequests]_vars

\* SpecNotify: the life of one customer's bookings (create, confirm, cancel)
\* served by one handler, slot B or both slots being slots of tomorrow, and
\* the reminder job of the scheduler as a task of its own.
Reminder == "p2"

InitNotify ==
  /\ slots \in {[InitSlots EXCEPT !["B"].slot_date = "d2"],
                [InitSlots EXCEPT !["A"].slot_date = "d2", !["B"].slot_date = "d2"]}
  /\ services = InitServices
  /\ bookings = <<>>
  /\ nextId = 1
  /\ now = 0
  /\ failures = 0
  /\ env = Config
  /\ pc = [p \in Procs |-> "idle"]
  /\ loc = [p \in Procs |-> NoLoc]

NextNotify ==
  \/ \E p \in Single, c \in Holders, sv \in ServiceAsked, t \in TherapistsAsked, s \in SlotIds :
       CreateStart(p, c, sv, t, s)
  \/ \E p \in Single : CreateReadSlot(p)
  \/ \E p \in Single : CreateReadService(p)
  \/ \E p \in Single : CreateInsert(p)
  \/ \E p \in Single : CreateClaim(p)
  \/ \E p \in Single : CreateRollback(p)
  \/ \E p \in Single, id \in BookingIds, c \in Holders : ConfirmRead(p, id, c)
  \/ \E p \in Single : ConfirmUpdate(p)
  \/ \E p \in Single, id \in BookingIds, c \in Holders : CancelRead(p, id, c)
  \/ \E p \in Single : CancelUpdate(p)
  \/ \E p \in Single : CancelRelease(p)
  \/ \E p \in Single : CancelRollback(p)
  \/ \E p \in Single : Finish(p)
  \/ ReminderStart(Reminder)
  \/ ReminderSelect(Reminder)
  \/ \E b \in loc[Reminder].selected, c \in Deliveries : ReminderSendCustomer(Reminder, b, c)
  \/ \E t \in Deliveries : ReminderSendTherapist(Reminder, t)
  \/ ReminderWait(Reminder)
  \/ Finish(Reminder)
  \/ Tick

SpecNotify == InitNotify /\ [][NextNotify]_vars

\* SpecMove: create_hold and reschedule, two requests at a time over up to
\* MaxBookings holds; the clock stands still.
NextMove ==
  \/ \E p \in Procs, c \in Holders, sv \in ServicesAsked, t \in TherapistsAsked, s \in SlotIds :
       CreateStart(p, c, sv, t, s)
  \/ \E p \in Procs : CreateReadSlot(p)
  \/ \E p \in Procs : CreateReadService(p)
  \/ \E p \in Procs : CreateInsert(p)
  \/ \E p \in Procs : CreateClaim(p)
  \/ \E p \in Procs : CreateRollback(p)
  \/ \E p \in Procs, id \in BookingIds, s \in SlotIds : RescheduleRead(p, id, s)
  \/ \E p \in Procs : RescheduleReadSlot(p)
  \/ \E p \in Procs : RescheduleUpdate(p)
  \/ \E p \in Procs : RescheduleFreeOld(p)
  \/ \E p \in Procs : RescheduleUndoUpdate(p)
  \/ \E p \in Procs : RescheduleReserveNew(p)
  \/ \E p \in Procs : RescheduleUndoBooking(p)
  \/ \E p \in Procs : RescheduleUndoSlot(p)
  \/ \E p \in Procs : Finish(p)

SpecMove == Init /\ [][NextMove]_vars

\* SpecPair: one hold, its holder's create and confirm served by one handler
\* and the admin's reschedules served by the other.
Admin == "p2"

NextPair ==
  \/ \E c \in Holders, sv \in ServicesAsked, t \in TherapistsAsked, s \in SlotIds :
       CreateStart(Client, c, sv, t, s)
  \/ CreateReadSlot(Client)
  \/ CreateReadService(Client)
  \/ CreateFirst(Client)
  \/ CreateClaim(Client)
  \/ CreateRollback(Client)
  \/ \E id \in BookingIds, c \in Holders : ConfirmRead(Client, id, c)
  \/ ConfirmUpdate(Client)
  \/ \E id \in BookingIds, s \in SlotIds : RescheduleRead(Admin, id, s)
  \/ RescheduleReadSlot(Admin)
  \/ RescheduleUpdate(Admin)
  \/ RescheduleFreeOld(Admin)
  \/ RescheduleUndoUpdate(Admin)
  \/ RescheduleReserveNew(Admin)
  \/ RescheduleUndoBooking(Admin)
  \/ RescheduleUndoSlot(Admin)
  \/ \E p \in Procs : Finish(p)
  \/ Tick

SpecPair == Init /\ [][NextPair]_vars

\* SpecServer: the life of the server process.  The module of the server is
\* loaded (the jobs are started), requests and runs of the cleanup job are
\* served by the tasks of Procs, a shutdown signal stops the jobs and closes
\* the server, and the process exits.  pc[Main] is the phase of the process,
\* loc[Main].op the state of the cleanup job in the scheduler and
\* loc[Main].count the number of calls of startCleanupJob.
Main == "main"
Signals == {"SIGTERM", "SIGINT"}

InitServer ==
  /\ slots = InitSlots
  /\ services = InitServices
  /\ bookings = <<>>
  /\ nextId = 1
  /\ now = 0
  /\ failures = 0
  /\ env = Config
  /\ pc = [p \in Procs \cup {Main} |-> IF p = Main THEN "loading" ELSE "idle"]
  /\ loc = [p \in Procs \cup {Main} |-> NoLoc]

\* a shutdown that closes the server and leaves the jobs scheduled
shutdown_KeepsJobs(signal) ==
  /\ pc[Main] \in {"running", "closing"}
  /\ pc' = [pc EXCEPT ![Main] = "closing"]
  /\ UNCHANGED <<slots, services, bookings, nextId, now, failures, env, loc>>

\* const jobs = startAllJobs(): startCleanupJob schedules the job and calls
\* cleanupExpiredReservations() once at once: that run has read the clock
\* and sent its select
startAllJobs ==
  /\ pc[Main] = "loading"
  /\ pc' = [pc EXCEPT ![Main] = "running", !["p1"] = "sw_select"]
  /\ loc' = [loc EXCEPT ![Main].op = "scheduled",
                        ![Main].count = loc[Main].count + 1,
                        !["p1"] = [NoLoc EXCEPT !.op = "sweep", !.now = now]]
  /\ UNCHANGED <<slots, services, bookings, nextId, now, failures, env>>

\* the scheduler fires the job: a scheduled run begins
CronRun(p) ==
  /\ pc[Main] \in {"running", "closing"}
  /\ loc[Main].op = "scheduled"
  /\ SweepStart(p)

\* shutdown(signal): stopAllJobs(jobs), server.close(..)
shutdown(signal) ==
  /\ pc[Main] \in {"running", "closing"}
  /\ pc' = [pc EXCEPT ![Main] = "closing"]
  /\ loc' = [loc EXCEPT ![Main].op = "stopped"]
  /\ UNCHANGED <<slots, services, bookings, nextId, now, failures, env>>

\* the callback of server.close: process.exit(0).  It runs when the last
\* connection has ended, which the clients bring about at any time
Exit ==
  /\ pc[Main] = "closing"
  /\ pc' = [pc EXCEPT ![Main] = "exited"]
  /\ UNCHANGED <<slots, services, bookings, nextId, now, failures, env, loc>>

\* a request is accepted while the server listens and, once server.close()
\* has been called, over a connection that was open before: the server stops
\* taking connections, the requests of the open ones are served
Listening(p) == pc[Main] \in {"running", "closing"}

\* the accounts: the user of a token and the role of the user's profile
Roles == [c1 |-> "customer", a1 |-> "admin"]
Users == DOMAIN Roles
NoToken == ""

\* router.use(authenticate): without a Bearer token the request is answered
\* at once, with one supabase.auth.getUser(token) is called
authenticate(p, route, token, service_id, therapist_id, time_slot_id) ==
  /\ pc[p] = "idle"
  /\ Listening(p)
  /\ IF token = NoToken
     THEN Goto(p, "done", [NoLoc EXCEPT !.op = route,
                                        !.ret = "401 No token provided. Please login."])
     ELSE Goto(p, "au_user", [NoLoc EXCEPT !.op = route, !.customer_id = token,
                                           !.service_id = service_id,
                                           !.therapist_id = therapist_id,
                                           !.time_slot_id = time_slot_id])
  /\ UNCHANGED <<slots, services, bookings, nextId, now, failures, env>>

\* getUser answers: an error, or the user, whose profile is selected
AuthUser(p) ==
  /\ pc[p] = "au_user"
  /\ UNCHANGED <<slots, services, bookings, nextId, now, env>>
  /\ \/ /\ CanFail
        /\ failures' = failures + 1
        /\ Respond(p, "401 Invalid or expired token. Please login again.")
     \/ /\ UNCHANGED failures
        /\ Goto(p, "au_profile", loc[p])

\* POST /cleanup: manualCleanup() calls cleanupExpiredReservations()
manualCleanup(p) == SweepBegin(p)

\* requireRole(..) and, for the role of the route, the handler up to its
\* first await
requireRole(p) ==
  LET l == loc[p]
      allowedRole == IF l.op = "reserve" THEN "customer" ELSE "admin"
  IN IF Roles[l.customer_id] # allowedRole
     THEN /\ Respond(p, IF allowedRole = "customer"
                        THEN "403 Access denied. Required role: customer"
                        ELSE "403 Access denied. Required role: admin")
          /\ UNCHANGED <<slots, services, bookings, nextId, now, failures, env>>
     ELSE IF l.op = "reserve"
          THEN CreateBegin(p, l.customer_id, l.service_id, l.therapist_id, l.time_slot_id)
          ELSE manualCleanup(p)

\* the select of the profile answers: an error, or the profile; next() runs
\* requireRole and the handler in the same turn
AuthProfile(p) ==
  /\ pc[p] = "au_profile"
  /\ \/ /\ CanFail
        /\ failures' = failures + 1
        /\ Respond(p, "401 User profile not found.")
        /\ UNCHANGED <<slots, services, bookings, nextId, now, env>>
     \/ requireRole(p)

NextServer ==
  \/ startAllJobs
  \/ \E p \in Procs : CronRun(p)
  \/ \E signal \in Signals : shutdown(signal)
  \/ Exit
  \/ \E p \in Procs, token \in Users \cup {NoToken}, sv \in ServiceAsked,
        t \in TherapistsAsked, s \in SlotIds :
       authenticate(p, "reserve", token, sv, t, s)
  \/ \E p \in Procs, token \in Users \cup {NoToken} :
       authenticate(p, "cleanup", token, "", "", "")
  \/ \E p \in Procs : pc[Main] # "exited" /\ AuthUser(p)
  \/ \E p \in Procs : pc[Main] # "exited" /\ AuthProfile(p)
  \/ \E p \in Procs : pc[Main] # "exited" /\ CreateReadSlot(p)
  \/ \E p \in Procs : pc[Main] # "exited" /\ CreateReadService(p)
  \/ \E p \in Procs : pc[Main] # "exited" /\ CreateFirst(p)
  \/ \E p \in Procs : pc[Main] # "exited" /\ CreateClaim(p)
  \/ \E p \in Procs : pc[Main] # "exited" /\ CreateRollback(p)
  \/ \E p \in Procs : pc[Main] # "exited" /\ SweepSelect(p)
  \/ \E p \in Procs : pc[Main] # "exited" /\ SweepDelete(p)
  \/ \E p \in Procs : pc[Main] # "exited" /\ SweepRelease(p)
  \/ \E p \in Procs : pc[Main] # "exited" /\ Finish(p)
  \/ Tick

SpecServer == InitServer /\ [][NextServer]_vars

\* SpecRace: the holds of one customer, made and cancelled by the customer
\* through the one handler and confirmed or cancelled through the other, the
\* admin's cancel included; two requests at a time.
NextRace ==
  \/ \E c \in Holders, sv \in ServiceAsked, t \in TherapistsAsked, s \in SlotIds :
       CreateStart(Client, c, sv, t, s)
  \/ CreateReadSlot(Client)
  \/ CreateReadService(Client)
  \/ CreateInsert(Client)
  \/ CreateClaim(Client)
  \/ CreateRollback(Client)
  \/ \E id \in BookingIds, c \in Holders : ConfirmRead(Admin, id, c)
  \/ ConfirmUpdate(Admin)
  \/ \E p \in Procs, id \in BookingIds, c \in Holders : CancelRead(p, id, c)
  \/ \E p \in Procs : CancelUpdate(p)
  \/ \E p \in Procs : CancelRelease(p)
  \/ \E p \in Procs : CancelRollback(p)
  \/ \E id \in BookingIds : AdminCancelRead(Admin, id)
  \/ AdminCancelUpdate(Admin)
  \/ AdminCancelRelease(Admin)
  \/ AdminCancelRollback(Admin)
  \/ \E p \in Procs : Finish(p)
  \/ Tick

SpecRace == Init /\ [][NextRace]_vars

\* SpecConfig: the three settings as the process reads them from its
\* environment, for every choice of the three variables among EnvValues.
DecimalDigits == <<"0", "1", "2", "3", "4", "5", "6", "7", "8", "9">>
DigitValue(c) == (CHOOSE k \in 1..10 : DecimalDigits[k] = c) - 1
IsDigit(c) == \E k \in 1..10 : DecimalDigits[k] = c

\* A character of a string is a string of one ASCII character; a character
\* outside ASCII is written as the name of its code point, "U+00A0".  The
\* vertical tab U+000B has no escape and is written as the character itself.
VerticalTab == ""
NoBreakSpace == "U+00A0"
OghamSpace == "U+1680"
ByteOrderMark == "U+FEFF"
LineSeparator == "U+2028"
ParagraphSeparator == "U+2029"

\* the other characters of the category Zs: U+2000..U+200A, U+202F, U+205F
\* and U+3000
SpaceSeparators ==
  {"U+2000", "U+2001", "U+2002", "U+2003", "U+2004", "U+2005", "U+2006", "U+2007",
   "U+2008", "U+2009", "U+200A", "U+202F", "U+205F", "U+3000"}

\* StrWhiteSpaceChar, the white space and the line ends parseInt skips: tab,
\* vertical tab, form feed, blank, no-break space, byte order mark and the
\* space separators; line feed, carriage return, line and paragraph
\* separator
WhiteSpace ==
  {"\t", VerticalTab, "\f", " ", NoBreakSpace, ByteOrderMark, OghamSpace,
   "\n", "\r", LineSeparator, ParagraphSeparator} \cup SpaceSeparators

RECURSIVE TrimStart(_)
TrimStart(chars) ==
  IF chars # <<>> /\ Head(chars) \in WhiteSpace THEN TrimStart(Tail(chars)) ELSE chars

RECURSIVE ReadDigits(_, _)
ReadDigits(chars, acc) ==
  IF chars = <<>> \/ ~IsDigit(Head(chars)) THEN acc
  ELSE ReadDigits(Tail(chars), acc * 10 + DigitValue(Head(chars)))

\* parseInt(value, 10): leading blanks are skipped, a sign is read, then the
\* digits up to the first other character; NaN (<<>>) when there is no digit
\* (undefined is read as the string "undefined")
parseInt(value) ==
  LET trimmed == IF value.type \in {"undefined", "null"} THEN <<"u">>
                 ELSE TrimStart(value.chars)
      signed == trimmed # <<>> /\ Head(trimmed) \in {"+", "-"}
      digits == IF signed THEN Tail(trimmed) ELSE trimmed
  IN IF digits = <<>> \/ ~IsDigit(Head(digits)) THEN <<>>
     ELSE IF signed /\ Head(trimmed) = "-" THEN <<0 - ReadDigits(digits, 0)>>
          ELSE <<ReadDigits(digits, 0)>>

EnvValues ==
  {Undefined, Str(<<>>), Str(<<"a", "b", "c">>), Str(<<"-", "1">>), Str(<<"0">>),
   Str(<<"1">>), Str(<<"+", "7">>), Str(<<"9">>), Str(<<"1", "0">>),
   Str(<<"1", "2", "m", "i", "n">>), Str(<<" ", "4", "2">>), Str(<<"\t", "4", "3">>),
   Str(<<VerticalTab, "4", "2">>), Str(<<NoBreakSpace, ByteOrderMark, OghamSpace, "7">>),
   Str(<<"U+2003", LineSeparator, "U+3000", "9">>), Str(<<"U+00E9", "7">>),
   Str(<<"U+200B", "7">>), Str(<<"4", NoBreakSpace, "2">>),
   Str(<<"3", ".", "7">>),
   Str(<<"6", "0">>), Str(<<"6", "1">>), Str(<<"1", "6", "8">>), Str(<<"1", "6", "9">>),
   Str(<<"3", "0", "0">>), Str(<<"3", "0", "1">>), Num42}

Parsed == {parseInt(value) : value \in EnvValues}

\* const intervalSeconds = parseIntSafe(process.env.CLEANUP_JOB_INTERVAL_SECONDS, 30, 10, 300)
intervalSeconds == parseIntSafe(env.CLEANUP_JOB_INTERVAL_SECONDS, 30, 10, 300)

InitConfig ==
  /\ slots = InitSlots
  /\ services = InitServices
  /\ bookings = <<>>
  /\ nextId = 1
  /\ now = 0
  /\ failures = 0
  /\ env \in [RESERVATION_TIMEOUT_MINUTES : Parsed, MIN_CANCEL_HOURS : Parsed,
               CLEANUP_JOB_INTERVAL_SECONDS : Parsed]
  /\ pc = [p \in Procs |-> "idle"]
  /\ loc = [p \in Procs |-> NoLoc]

\* the handler or job has computed the setting named op
ReadSetting(p, op, value) ==
  /\ pc[p] = "idle"
  /\ Goto(p, "done", [NoLoc EXCEPT !.op = op, !.count = value])
  /\ UNCHANGED <<slots, services, bookings, nextId, now, failures, env>>

NextConfig ==
  \/ ReadSetting(Client, "timeoutMinutes", timeoutMinutes)
  \/ ReadSetting(Client, "minCancelHours", minCancelHours)
  \/ ReadSetting(Sweeper, "intervalSeconds", intervalSeconds)

SpecConfig == InitConfig /\ [][NextConfig]_vars

(***************************************************************************)
(* Properties                                                              *)
(***************************************************************************)
Active(b) == b.status \in {"pending", "confirmed"}

\* the pending or confirmed bookings that reference slot s
HoldersOf(s) == {i \in DOMAIN bookings : Active(bookings[i]) /\ bookings[i].time_slot_id = s}

\* no handler is between two of its store calls
Quiescent == \A p \in Procs : pc[p] \in {"idle", "done"}

\* C1: whenever no request is in flight, a slot is unavailable if and only if
\* exactly one pending or confirmed booking references it.
C1_SlotHeldIffOneHolder ==
  Quiescent =>
    \A s \in SlotIds : (~slots[s].is_available) <=> (Cardinality(HoldersOf(s)) = 1)

\* C2: two create_hold calls never both return success for the same slot:
\* of two calls that raced for a slot one succeeds and its pending booking
\* is the only one on the slot.
C2_OneHoldWins ==
  \A p, q \in Procs :
    (/\ p # q
     /\ pc[p] = "done" /\ loc[p].op = "create" /\ loc[p].ret = "201"
     /\ pc[q] = "done" /\ loc[q].op = "create" /\ loc[q].ret = "201"
     /\ Exists(loc[p].id) /\ Exists(loc[q].id))
    => bookings[loc[p].id].time_slot_id # bookings[loc[q].id].time_slot_id

\* C3: once the requests in flight have returned, no two distinct pending or
\* confirmed bookings reference the same slot.
C3_NoDoubleBooking ==
  Quiescent =>
    \A i, j \in DOMAIN bookings :
      (i # j /\ Active(bookings[i]) /\ Active(bookings[j]))
        => bookings[i].time_slot_id # bookings[j].time_slot_id

\* C4: every existing booking has a non-null reservation_expires_at exactly
\* when its status is pending.
C4_ExpiryIffPending ==
  \A i \in DOMAIN bookings :
    (bookings[i].reservation_expires_at # NULL) <=> (bookings[i].status = "pending")

\* a cancel whose slot release failed has rolled the booking back to pending
C4_Witness ==
  \E p \in Procs, i \in DOMAIN bookings :
    /\ pc[p] = "done"
    /\ loc[p].op \in {"cancel", "adminCancel"}
    /\ loc[p].ret = "500 Failed to release time slot"
    /\ bookings[i].status = "pending"
    /\ bookings[i].reservation_expires_at # NULL

\* C5: a create_hold that succeeds inserts exactly one booking, pending and
\* unpaid, with the slot's id, date and times, the service's name, price and
\* duration and an expiry of the creation time (the time at which the
\* handler, its reads answered, makes the row it inserts) plus the
\* configured hold time, and leaves the slot unavailable.
C5_HoldCreated ==
  [][\A p \in Procs :
       /\ (pc[p] \in {"cr_slot", "cr_service"} /\ pc'[p] = "cr_insert") =>
            loc'[p].expiresAt = now + env.RESERVATION_TIMEOUT_MINUTES[1]
       /\ (pc[p] = "cr_insert" /\ pc'[p] = "cr_claim") =>
            LET s == loc[p].time_slot_id
                sv == loc[p].service_id
                b == bookings'[nextId]
            IN /\ nextId \notin DOMAIN bookings
               /\ DOMAIN bookings' = DOMAIN bookings \cup {nextId}
               /\ \A i \in DOMAIN bookings : bookings'[i] = bookings[i]
               /\ b.status = "pending"
               /\ b.payment_status = "pending"
               /\ b.time_slot_id = s
               /\ b.booking_date = slots[s].slot_date
               /\ b.start_time = slots[s].start_time
               /\ b.end_time = slots[s].end_time
               /\ b.service_name = services[sv].name
               /\ b.service_price = services[sv].price
               /\ b.service_duration = services[sv].duration
               /\ b.reservation_expires_at = loc[p].expiresAt
       /\ (pc[p] = "cr_claim" /\ pc'[p] = "done" /\ loc'[p].ret = "201") =>
            /\ ~slots'[loc[p].time_slot_id].is_available
            /\ loc'[p].id = loc[p].booking.id
            /\ bookings' = bookings
     ]_vars

\* a create_hold has answered 201: its booking is pending on an unavailable slot
C5_Witness ==
  \E p \in Procs :
    /\ pc[p] = "done" /\ loc[p].op = "create" /\ loc[p].ret = "201"
    /\ Exists(loc[p].id)
    /\ bookings[loc[p].id].status = "pending"
    /\ bookings[loc[p].id].reservation_expires_at > now
    /\ ~slots[bookings[loc[p].id].time_slot_id].is_available

\* C6: a slot-claim step that finds the slot already claimed (a guarded update
\* would affect zero rows) or that errors is followed by the compensation, and
\* after the compensation create_hold has answered with an error and the
\* booking it inserted is gone.
C6_FailedClaimUndone ==
  [][\A p \in Procs :
       /\ (/\ pc[p] = "cr_claim" /\ pc'[p] # "cr_claim"
           /\ (~slots[loc[p].time_slot_id].is_available \/ failures' # failures))
            => (pc'[p] = "cr_rollback" /\ slots' = slots)
       /\ (pc[p] = "cr_rollback" /\ pc'[p] = "done") =>
            /\ loc[p].booking.id \notin DOMAIN bookings'
            /\ loc'[p].ret = "500 Failed to reserve time slot"
            /\ slots' = slots
     ]_vars

\* what a successful confirm does: status confirmed, paid, expiry cleared, and
\* nothing else of the booking, no other booking and no slot changes
C7_Effect(p) ==
  /\ (pc[p] # "done" /\ pc'[p] = "done" /\ loc'[p].op = "confirm" /\ loc'[p].ret = "200")
       => pc[p] = "cf_update"
  /\ (pc[p] = "cf_update" /\ pc'[p] = "done" /\ loc'[p].ret = "200") =>
       LET id == loc[p].id
       IN /\ Exists(id)
          /\ bookings' = [bookings EXCEPT ![id].status = "confirmed",
                                          ![id].payment_status = "paid",
                                          ![id].reservation_expires_at = NULL]
          /\ bookings'[id].time_slot_id = bookings[id].time_slot_id
          /\ slots' = slots

\* confirm goes on to its update only for a booking that it found ...
C7_Found(p) ==
  /\ Exists(loc'[p].id)
  /\ bookings[loc'[p].id].customer_id = loc'[p].customer_id
  /\ bookings[loc'[p].id].status = "pending"

\* C7 as claimed: confirm succeeds only for an existing booking of the caller
\* that is pending with reservation_expires_at strictly later than the time of
\* the check, and then sets confirmed, paid, no expiry, slot untouched.
C7_ConfirmOnlyStrictlyBeforeExpiry ==
  [][\A p \in Procs :
       /\ (pc[p] = "idle" /\ pc'[p] = "cf_update") =>
            (C7_Found(p) /\ bookings[loc'[p].id].reservation_expires_at > now)
       /\ C7_Effect(p)
     ]_vars

\* C7 as amended: the same with reservation_expires_at not earlier than the
\* time of the check (a hold is still confirmable in the minute it expires).
C7_ConfirmOnlyUntilExpiry ==
  [][\A p \in Procs :
       /\ (pc[p] = "idle" /\ pc'[p] = "cf_update") =>
            (C7_Found(p) /\ bookings[loc'[p].id].reservation_expires_at >= now)
       /\ C7_Effect(p)
     ]_vars

\* a confirm has answered 200 and the booking is confirmed, paid, without expiry
C7_Witness ==
  \E p \in Procs :
    /\ pc[p] = "done" /\ loc[p].op = "confirm" /\ loc[p].ret = "200"
    /\ Exists(loc[p].id)
    /\ bookings[loc[p].id].status = "confirmed"
    /\ bookings[loc[p].id].payment_status = "paid"
    /\ bookings[loc[p].id].reservation_expires_at = NULL
    /\ ~slots[bookings[loc[p].id].time_slot_id].is_available

\* C8: a confirm of a pending booking whose expiry has passed answers
\* "expired" and changes no booking and no slot; a sweeper run selects the
\* bookings that are pending and had expired when it started, its delete
\* removes every booking it selected and its release makes their slots
\* available.
C8_ExpiredConfirmThenSweep ==
  [][\A p \in Procs :
       /\ \A id \in BookingIds, c \in Customers :
            (/\ ConfirmRead(p, id, c) /\ failures' = failures
             /\ Exists(id) /\ bookings[id].customer_id = c
             /\ bookings[id].status = "pending"
             /\ bookings[id].reservation_expires_at < now)
            => /\ pc'[p] = "done"
               /\ loc'[p].ret = "400 Reservation has expired"
               /\ UNCHANGED <<bookings, slots>>
       /\ (pc[p] = "idle" /\ pc'[p] # "idle" /\ loc'[p].op = "sweep") =>
            pc'[p] = "sw_select" /\ loc'[p].now = now
       /\ (pc[p] = "sw_select" /\ pc'[p] # "sw_select" /\ failures' = failures) =>
            LET due == {i \in DOMAIN bookings :
                          /\ bookings[i].status = "pending"
                          /\ bookings[i].reservation_expires_at # NULL
                          /\ bookings[i].reservation_expires_at < loc[p].now}
            IN /\ loc'[p].selected = {[id |-> i, time_slot_id |-> bookings[i].time_slot_id] : i \in due}
               /\ (due # {}) => pc'[p] = "sw_delete"
       /\ (pc[p] = "sw_delete" /\ pc'[p] = "sw_release") =>
            \A b \in loc[p].selected : b.id \notin DOMAIN bookings'
       /\ (pc[p] = "sw_release" /\ pc'[p] = "done" /\ failures' = failures) =>
            \A b \in loc[p].selected : slots'[b.time_slot_id].is_available
     ]_vars

\* a confirm was refused as expired, then a sweeper run deleted the only
\* booking ever made and its slot is available again
C8_Witness ==
  \E p, q \in Procs :
    /\ pc[q] = "done" /\ loc[q].op = "confirm" /\ loc[q].ret = "400 Reservation has expired"
    /\ pc[p] = "done" /\ loc[p].op = "sweep" /\ loc[p].ret = "count"
    /\ nextId = 2 /\ DOMAIN bookings = {}
    /\ \A s \in SlotIds : slots[s].is_available

\* confirm has reported booking id as confirmed
ReportedConfirmed(id) ==
  \E q \in Procs :
    pc[q] = "done" /\ loc[q].op = "confirm" /\ loc[q].ret = "200" /\ loc[q].id = id

\* C9: no step of a sweeper run undoes a confirm that has returned success:
\* its delete step removes no booking that confirm has reported as confirmed,
\* and its release step does not make the slot of such a booking available.
C9_SweepSparesConfirmed ==
  [][\A p \in Procs :
       /\ (pc[p] = "sw_delete" /\ pc'[p] = "sw_release") =>
            \A i \in DOMAIN bookings : ReportedConfirmed(i) => i \in DOMAIN bookings'
       /\ (pc[p] = "sw_release" /\ pc'[p] = "done") =>
            \A i \in DOMAIN bookings :
              (ReportedConfirmed(i) /\ ~slots[bookings[i].time_slot_id].is_available)
                => ~slots'[bookings[i].time_slot_id].is_available
     ]_vars

\* C10: every booking the delete step of a sweeper run removes is, at that
\* moment, pending with an expiry in the past.
C10_DeletesOnlyExpiredPending ==
  [][\A p \in Procs :
       (pc[p] = "sw_delete" /\ pc'[p] = "sw_release") =>
         \A i \in DOMAIN bookings \ DOMAIN bookings' :
           /\ bookings[i].status = "pending"
           /\ bookings[i].reservation_expires_at # NULL
           /\ bookings[i].reservation_expires_at < now
     ]_vars

\* the step by which a cancel (customer or admin) answers
CancelAnswers(p, r) ==
  /\ pc[p] # "done" /\ pc'[p] = "done"
  /\ loc'[p].op \in {"cancel", "adminCancel"}
  /\ loc'[p].ret = r

\* C11: a cancel (customer or admin) that answers success was called on a
\* booking with status pending or confirmed, and leaves that booking with
\* status cancelled and reservation_expires_at null and the slot it
\* referenced available; no other field of the booking and no other booking
\* has changed since the call read it.
C11_CancelSucceeds ==
  [][\A p \in Procs :
       CancelAnswers(p, "200") =>
         LET id == loc[p].id
             was == loc[p].booking
         IN /\ pc[p] \in {"cn_release", "ac_release"}
            /\ was.status \in {"pending", "confirmed"}
            /\ id \in DOMAIN bookings'
            /\ bookings'[id] = [was EXCEPT !.status = "cancelled",
                                           !.reservation_expires_at = NULL]
            /\ \A i \in DOMAIN bookings' \ {id} : bookings'[i] = bookings[i]
            /\ slots'[was.time_slot_id].is_available
            /\ \A s \in SlotIds \ {was.time_slot_id} : slots'[s] = slots[s]
     ]_vars

\* a cancel of a confirmed booking has answered 200: the booking is
\* cancelled without expiry and its slot is available
C11_Witness ==
  \E p \in Procs :
    /\ pc[p] = "done" /\ loc[p].op \in {"cancel", "adminCancel"} /\ loc[p].ret = "200"
    /\ Exists(loc[p].id)
    /\ bookings[loc[p].id].status = "cancelled"
    /\ bookings[loc[p].id].payment_status = "paid"
    /\ bookings[loc[p].id].reservation_expires_at = NULL
    /\ slots[bookings[loc[p].id].time_slot_id].is_available

\* the slot release of a cancel fails: nothing changes and the compensation
\* is next
C12_ReleaseFails(p) ==
  (pc[p] \in {"cn_release", "ac_release"} /\ pc'[p] # pc[p] /\ failures' # failures)
    => /\ pc'[p] = (IF pc[p] = "cn_release" THEN "cn_rollback" ELSE "ac_rollback")
       /\ UNCHANGED <<slots, bookings>>

\* the compensation of a cancel has run
C12_Compensated(p) ==
  pc[p] \in {"cn_rollback", "ac_rollback"} /\ pc'[p] # pc[p]

\* C12 as claimed: when the slot release of a cancel fails, cancel answers
\* with an error, the booking ends as it was before the call (status and
\* reservation_expires_at included) and no slot has changed.
C12_FailedCancelRestoresAlways ==
  [][\A p \in Procs :
       /\ C12_ReleaseFails(p)
       /\ C12_Compensated(p) =>
            /\ CancelAnswers(p, "500 Failed to release time slot")
            /\ slots' = slots
            /\ DOMAIN bookings' = DOMAIN bookings
            /\ bookings'[loc[p].id] = loc[p].booking
            /\ \A i \in DOMAIN bookings \ {loc[p].id} : bookings'[i] = bookings[i]
     ]_vars

\* C12 as amended: the same when the compensating update succeeds; when it
\* fails too, cancel answers with the same error and the booking stays
\* cancelled with its slot unavailable.
C12_FailedCancelRestores ==
  [][\A p \in Procs :
       /\ C12_ReleaseFails(p)
       /\ C12_Compensated(p) =>
            /\ CancelAnswers(p, "500 Failed to release time slot")
            /\ slots' = slots
            /\ DOMAIN bookings' = DOMAIN bookings
            /\ \A i \in DOMAIN bookings \ {loc[p].id} : bookings'[i] = bookings[i]
            /\ (failures' = failures) => bookings'[loc[p].id] = loc[p].booking
            /\ (failures' # failures) =>
                 bookings'[loc[p].id] = [loc[p].booking EXCEPT
                                           !.status = "cancelled",
                                           !.reservation_expires_at = NULL]
     ]_vars

\* the cancel of the only booking, a confirmed one, has answered that the
\* release failed: the booking is confirmed again and its slot unavailable
C12_Witness ==
  \E p \in Procs :
    /\ pc[p] = "done" /\ loc[p].op \in {"cancel", "adminCancel"}
    /\ loc[p].ret = "500 Failed to release time slot"
    /\ failures = 1 /\ nextId = 2 /\ Exists(1)
    /\ bookings[1].status = "confirmed"
    /\ bookings[1].reservation_expires_at = NULL
    /\ ~slots[bookings[1].time_slot_id].is_available

\* the configured minimum notice in hours; not set is no policy
C13_PolicyHours ==
  IF env.MIN_CANCEL_HOURS = <<>> THEN 0 ELSE env.MIN_CANCEL_HOURS[1]

\* the scheduled start of booking id: the first instant at which the clocks
\* of the process show the booking's date and start time
C13_ScheduledStart(id) ==
  LET b == bookings[id]
      day == CHOOSE d \in -1..2 : DateOfDay(d) = b.booking_date
      shown == day * 1440 + b.start_time[1] * 60 + b.start_time[2]
      instants == {u \in {shown - env.TZ.before, shown - env.TZ.after} :
                     LocalTime(u) = shown}
  IN CHOOSE u \in instants : \A v \in instants : u <= v

\* minutes from now to the scheduled start of booking id
C13_MinutesAhead(id) == C13_ScheduledStart(id) - now

\* C13: with a minimum notice of more than 0 hours configured, the cancel of
\* a confirmed booking that starts in less than that many hours is answered
\* "too late to cancel" and changes no booking and no slot; the cancel of a
\* pending booking goes on to cancel it whatever the policy, and so does the
\* cancel of a confirmed booking when the policy is 0 or the notice is kept.
C13_MinimumNotice ==
  [][\A p \in Procs, id \in BookingIds, c \in Customers :
       (/\ CancelRead(p, id, c) /\ failures' = failures
        /\ Exists(id) /\ bookings[id].customer_id = c)
       => LET late == /\ C13_PolicyHours > 0
                      /\ C13_MinutesAhead(id) < C13_PolicyHours * 60
          IN /\ (bookings[id].status = "confirmed" /\ late) =>
                  /\ pc'[p] = "done"
                  /\ loc'[p].ret = "400 Cancellations must be made earlier"
                  /\ UNCHANGED <<bookings, slots>>
             /\ (bookings[id].status = "pending") =>
                  (pc'[p] = "cn_update" /\ loc'[p].id = id)
             /\ (bookings[id].status = "confirmed" /\ ~late) =>
                  (pc'[p] = "cn_update" /\ loc'[p].id = id)
     ]_vars

\* with 25 hours of notice configured, the cancel of a confirmed booking
\* that starts on the next day, in 24 hours and 59 minutes, has been
\* answered "too late"
C13_Witness ==
  \E p \in Procs :
    /\ pc[p] = "done" /\ loc[p].op = "cancel"
    /\ loc[p].ret = "400 Cancellations must be made earlier"
    /\ env.MIN_CANCEL_HOURS = <<25>>
    /\ nextId = 2 /\ Exists(1)
    /\ bookings[1].status = "confirmed"
    /\ bookings[1].booking_date = "d2"
    /\ C13_MinutesAhead(1) = 25 * 60 - 1

\* the step by which a reschedule answers
RescheduleAnswers(p, r) ==
  /\ pc[p] # "done" /\ pc'[p] = "done"
  /\ loc'[p].op = "reschedule"
  /\ loc'[p].ret = r

\* C14: a reschedule that answers success leaves the booking with the new
\* slot's id, date, start and end and with every other field, status and
\* reservation_expires_at included, as it was; the old slot is available,
\* the new slot is unavailable, and no other booking or slot has changed.
C14_RescheduleSucceeds ==
  [][\A p \in Procs :
       RescheduleAnswers(p, "200") =>
         LET id == loc[p].id
             was == loc[p].booking
             old == loc[p].booking.time_slot_id
             new == loc[p].time_slot_id
         IN /\ pc[p] = "rs_reserve"
            /\ id \in DOMAIN bookings'
            /\ bookings'[id] = [was EXCEPT !.time_slot_id = new,
                                           !.booking_date = slots[new].slot_date,
                                           !.start_time = slots[new].start_time,
                                           !.end_time = slots[new].end_time]
            /\ bookings'[id].status = was.status
            /\ bookings'[id].reservation_expires_at = was.reservation_expires_at
            /\ \A i \in DOMAIN bookings' \ {id} : bookings'[i] = bookings[i]
            /\ ~slots'[new].is_available
            /\ (old # new) => slots'[old].is_available
            /\ \A x \in SlotIds \ {old, new} : slots'[x] = slots[x]
     ]_vars

\* the reschedule of the only booking, made on slot A, to slot B has
\* answered 200: the booking has B's date and times, A is available, B is not
C14_Witness ==
  \E p \in Procs :
    /\ pc[p] = "done" /\ loc[p].op = "reschedule" /\ loc[p].ret = "200"
    /\ nextId = 2 /\ Exists(1)
    /\ bookings[1].time_slot_id = "B"
    /\ bookings[1].start_time = slots["B"].start_time
    /\ bookings[1].end_time = slots["B"].end_time
    /\ bookings[1].status = "confirmed"
    /\ slots["A"].is_available /\ ~slots["B"].is_available

\* C15: a reschedule to a slot that is taken (not available) when the call
\* looks it up answers with an error, and leaves the booking on its old slot
\* with the old date and times, the old slot unavailable as it was and the
\* new slot's availability unchanged.
C15_RescheduleToTakenSlot ==
  [][\A p \in Procs :
       (/\ pc[p] = "rs_slot" /\ pc'[p] # pc[p]
        /\ ~slots[loc[p].time_slot_id].is_available)
       => /\ RescheduleAnswers(p, "400 New time slot not available or does not exist")
          /\ UNCHANGED <<bookings, slots>>
          /\ Exists(loc[p].id) => bookings'[loc[p].id] = loc[p].booking
     ]_vars

\* booking 1 holds slot A, booking 2 holds slot B, and a reschedule has been
\* refused because the new slot is taken; both slots are still unavailable
C15_Witness ==
  \E p \in Procs :
    /\ pc[p] = "done" /\ loc[p].op = "reschedule"
    /\ loc[p].ret = "400 New time slot not available or does not exist"
    /\ failures = 0
    /\ Exists(1) /\ Exists(2)
    /\ Active(bookings[1]) /\ Active(bookings[2])
    /\ bookings[1].time_slot_id = "A" /\ bookings[1].start_time = slots["A"].start_time
    /\ bookings[2].time_slot_id = "B" /\ bookings[2].start_time = slots["B"].start_time
    /\ ~slots["A"].is_available /\ ~slots["B"].is_available

\* a leg of the reschedule saga fails: the call changes nothing in that step
\* and either answers (leg 1) or turns to its compensation (legs 2 and 3)
C16_LegFails(p) ==
  /\ (pc[p] = "rs_update" /\ pc'[p] # pc[p] /\ failures' # failures) =>
       /\ RescheduleAnswers(p, "500 Failed to reschedule booking")
       /\ UNCHANGED <<bookings, slots>>
       /\ bookings[loc[p].id] = loc[p].booking
  /\ (pc[p] = "rs_free" /\ pc'[p] # pc[p] /\ failures' # failures) =>
       (pc'[p] = "rs_undo_update" /\ UNCHANGED <<bookings, slots>>)
  /\ (pc[p] = "rs_reserve" /\ pc'[p] # pc[p] /\ failures' # failures) =>
       (pc'[p] = "rs_undo_booking" /\ UNCHANGED <<bookings, slots>>)

\* the booking is again the row the call read and no other booking changed
C16_BookingRestored(p) ==
  /\ DOMAIN bookings' = DOMAIN bookings
  /\ bookings'[loc[p].id] = loc[p].booking
  /\ \A i \in DOMAIN bookings \ {loc[p].id} : bookings'[i] = bookings[i]

\* the old slot is unavailable again, the new slot (when it is another one)
\* is the row the call read, available, and no other slot changed
C16_SlotsRestored(p) ==
  /\ ~slots'[loc[p].booking.time_slot_id].is_available
  /\ (loc[p].time_slot_id # loc[p].booking.time_slot_id) =>
       slots'[loc[p].time_slot_id] = loc[p].timeSlot
  /\ \A x \in SlotIds \ {loc[p].booking.time_slot_id} : slots'[x] = slots[x]

\* the compensations of legs 2 and 3, given what ok says of their store calls
C16_Compensation(p, ok) ==
  /\ (pc[p] = "rs_undo_update" /\ pc'[p] # pc[p]) =>
       /\ RescheduleAnswers(p, "500 Failed to free old time slot")
       /\ slots' = slots
       /\ ok => C16_BookingRestored(p)
  /\ (pc[p] = "rs_undo_booking" /\ pc'[p] # pc[p]) =>
       /\ pc'[p] = "rs_undo_slot"
       /\ slots' = slots
       /\ ok => C16_BookingRestored(p)
  /\ (pc[p] = "rs_undo_slot" /\ pc'[p] # pc[p]) =>
       /\ RescheduleAnswers(p, "500 Failed to reserve new time slot")
       /\ bookings' = bookings
       /\ ok => C16_SlotsRestored(p)

\* C16 as claimed: when a leg of reschedule fails, reschedule answers with
\* an error and, once the compensation has run, the booking has the slot,
\* date and times it had before the call, the old slot is unavailable as the
\* booking held it and the new slot is as it was.
C16_SagaCompensatedAlways ==
  [][\A p \in Procs : C16_LegFails(p) /\ C16_Compensation(p, TRUE)]_vars

\* C16 as amended: the same for every compensating call that itself
\* succeeds; one that fails leaves what it was to restore as it is.
C16_SagaCompensated ==
  [][\A p \in Procs :
       /\ C16_LegFails(p)
       /\ C16_Compensation(p, failures' = failures)
       /\ (pc[p] \in {"rs_undo_update", "rs_undo_booking", "rs_undo_slot"}
             /\ pc'[p] # pc[p] /\ failures' # failures)
            => UNCHANGED <<bookings, slots>>
     ]_vars

\* the reschedule of the only booking from slot A to slot B has failed at
\* its third leg and was compensated: the booking is on A with A's times,
\* A is unavailable and B available
C16_Witness ==
  \E p \in Procs :
    /\ pc[p] = "done" /\ loc[p].op = "reschedule"
    /\ loc[p].ret = "500 Failed to reserve new time slot"
    /\ failures = 1 /\ nextId = 2 /\ Exists(1)
    /\ bookings[1].time_slot_id = "A"
    /\ bookings[1].start_time = slots["A"].start_time
    /\ bookings[1].end_time = slots["A"].end_time
    /\ ~slots["A"].is_available /\ slots["B"].is_available

\* the pending bookings whose expiry is before time t
C17_Due(bs, t) ==
  {i \in DOMAIN bs : /\ bs[i].status = "pending"
                     /\ bs[i].reservation_expires_at # NULL
                     /\ bs[i].reservation_expires_at < t}

\* C17: a sweeper run that has deleted leaves no pending booking that was
\* expired when it selected (what is due at its end has expired since), and
\* a run that starts with no pending booking expired deletes nothing,
\* updates no slot and returns 0: a second run right after the first, with
\* no hold expiring in between, changes nothing.
C17_SecondSweepDoesNothing ==
  [][\A p \in Procs :
       /\ (pc[p] = "sw_release" /\ pc'[p] = "done") =>
            /\ loc'[p].ret = "count"
            /\ C17_Due(bookings', loc[p].now) = {}
       /\ (pc[p] = "sw_select" /\ pc'[p] # "sw_select"
             /\ C17_Due(bookings, loc[p].now) = {}) =>
            /\ pc'[p] = "done"
            /\ loc'[p].ret = "0"
            /\ UNCHANGED <<bookings, slots>>
     ]_vars

\* the only hold ever made was deleted by a sweeper run, no store call has
\* failed, and a later run has returned 0
C17_Witness ==
  \E p \in Procs :
    /\ pc[p] = "done" /\ loc[p].op = "sweep" /\ loc[p].ret = "0"
    /\ failures = 0 /\ nextId = 2 /\ DOMAIN bookings = {}
    /\ \A s \in SlotIds : slots[s].is_available

\* booking id is a hold whose expiry has passed
C18_Expired(id) ==
  /\ Exists(id)
  /\ bookings[id].status = "pending"
  /\ bookings[id].reservation_expires_at # NULL
  /\ bookings[id].reservation_expires_at < now

\* the cleanup job is about to delete booking id, which references slot s
C18_Deleting(id, s) ==
  /\ pc[Sweeper] = "sw_delete"
  /\ id \in {b.id : b \in loc[Sweeper].selected}
  /\ C18_Expired(id)
  /\ bookings[id].time_slot_id = s

\* C18: as long as no store call fails, a hold whose expiry has passed is
\* eventually deleted (unless it is cancelled first), and the slot it
\* references when the cleanup job deletes it is eventually available, also
\* when it was rescheduled while pending.
C18_HoldsAreReclaimed ==
  \A id \in BookingIds, s \in SlotIds :
    [](failures = 0) =>
      /\ (C18_Expired(id) ~> (~Exists(id) \/ bookings[id].status # "pending"))
      /\ (C18_Deleting(id, s) ~> slots[s].is_available)

\* the changes of status of C19
C19_Allowed ==
  {<<"pending", "confirmed">>, <<"pending", "cancelled">>, <<"confirmed", "cancelled">>}

\* this step is the compensation of a cancel putting back the status of
\* booking i that the cancel had read (spec 4.1: restore the prior status)
C19_Restores(i) ==
  \E p \in Procs :
    /\ pc[p] \in {"cn_rollback", "ac_rollback"} /\ pc'[p] = "done"
    /\ loc[p].id = i
    /\ bookings[i].status = "cancelled"
    /\ bookings'[i].status = loc[p].booking.status

\* C19: in every execution, concurrent calls included, a booking that
\* exists before and after a step and changes status goes from pending to
\* confirmed, from pending to cancelled or from confirmed to cancelled, so
\* that a cancelled or completed booking keeps its status.  Of the
\* compensations, the one of a cancel whose slot release failed is left
\* aside here: it puts the status the cancel read back on the booking it
\* has just cancelled.
C19_StatusTransitions ==
  [][\A i \in DOMAIN bookings \cap DOMAIN bookings' :
       (bookings'[i].status # bookings[i].status /\ ~C19_Restores(i)) =>
         <<bookings[i].status, bookings'[i].status>> \in C19_Allowed
     ]_vars

\* the identifiers sent that are not of the form of an identifier
C20_Malformed == {NonHexId, ShortId, Num42, Variant7Id}

\* a required field that is not there
C20_Missing == {Undefined, Str(<<>>)}

\* the request is answered with a validation error and the store has not
\* been called: nothing has changed and no store call has failed
C20_Rejected(p) ==
  /\ pc'[p] = "done"
  /\ loc'[p].ret \in {"400 Missing required fields", "400 Invalid UUID format"}
  /\ UNCHANGED <<bookings, slots, failures>>

\* C20: create_hold, confirm, cancel, admin cancel and reschedule answer a
\* request with a malformed identifier or a missing required field with a
\* validation error, before any read or write of the store.
C20_ValidatedBeforeStore ==
  [][\A p \in Procs :
       /\ \A c \in Holders, sv \in ServiceIdsSent, t \in TherapistIdsSent, s \in SlotIdsSent :
            (/\ createReservation(p, c, sv, t, s)
             /\ {sv, t, s} \cap (C20_Malformed \cup C20_Missing) # {})
            => C20_Rejected(p)
       /\ \A id \in IdsSent, c \in Customers :
            (confirmReservation(p, id, c) /\ id \in C20_Malformed) => C20_Rejected(p)
       /\ \A id \in IdsSent, c \in Customers :
            (cancelReservation(p, id, c) /\ id \in C20_Malformed) => C20_Rejected(p)
       /\ \A id \in IdsSent :
            (adminCancelBooking(p, id) /\ id \in C20_Malformed) => C20_Rejected(p)
       /\ \A id \in IdsSent, s \in SlotIdsSent :
            (/\ adminRescheduleBooking(p, id, s)
             /\ (id \in C20_Malformed \/ s \in C20_Malformed \cup C20_Missing))
            => C20_Rejected(p)
     ]_vars

\* the not-found and conflict answers of the five operations
C21_Errors ==
  {"400 Time slot not available or does not exist",
   "400 Service not found or inactive",
   "404 Booking not found",
   "400 Cannot confirm booking with status",
   "400 Reservation has expired",
   "400 Cannot cancel booking with status",
   "400 Cancellations must be made earlier",
   "400 Cannot reschedule booking with status",
   "400 New time slot not available or does not exist",
   "400 New time slot is too short for this service"}

\* the positions of a handler at which it has issued reads only
C21_BeforeWrites == {"idle", "cr_reads", "cr_slot", "cr_service", "rs_slot"}

\* C21: an operation that answers with a not-found or conflict error answers
\* from a position at which it has only read, and none of its steps up to
\* and including the answer changes a booking or a slot.
C21_ErrorsMutateNothing ==
  [][\A p \in Procs :
       /\ (pc[p] # "done" /\ pc'[p] = "done" /\ loc'[p].ret \in C21_Errors)
            => /\ pc[p] \in C21_BeforeWrites
               /\ bookings' = bookings
               /\ slots' = slots
       /\ (pc[p] \in C21_BeforeWrites /\ pc'[p] \in C21_BeforeWrites /\ pc'[p] # pc[p])
            => /\ bookings' = bookings
               /\ slots' = slots
     ]_vars

\* a reschedule of a 90 minute booking to the 60 minute slot, and a confirm
\* of an expired hold, have been refused while bookings exist
C21_Witness ==
  \E p \in Procs :
    /\ pc[p] = "done"
    /\ loc[p].ret \in {"400 New time slot is too short for this service",
                        "400 Reservation has expired"}
    /\ \E i \in DOMAIN bookings :
         /\ bookings[i].status = "pending"
         /\ ~slots[bookings[i].time_slot_id].is_available

\* the minutes between the start and the end of slot s
C22_Window(s) == getTimeDuration(slots[s].start_time, slots[s].end_time)

\* C22: every booking references a slot whose window is at least the
\* booking's recorded service duration (create_hold refuses a slot that is
\* shorter than the service).
C22_WindowFitsService ==
  \A i \in DOMAIN bookings :
    C22_Window(bookings[i].time_slot_id) >= bookings[i].service_duration

\* the status, expiry and slot of every booking
C23_BookingFacts ==
  [i \in DOMAIN bookings |->
     <<bookings[i].status, bookings[i].reservation_expires_at, bookings[i].time_slot_id>>]

\* the availability of every slot
C23_Availability == [s \in SlotIds |-> slots[s].is_available]

\* C23: a step of the reminder job in which a message is not delivered (the
\* send fails or is skipped) changes the status, expiry and slot of no
\* booking and the availability of no slot.
C23_FailedSendChangesNothing ==
  [][/\ \A b \in loc[Reminder].selected, c \in Deliveries \ {"sent"} :
          ReminderSendCustomer(Reminder, b, c)
            => /\ C23_BookingFacts' = C23_BookingFacts
               /\ C23_Availability' = C23_Availability
     /\ \A t \in Deliveries \ {"sent"} :
          ReminderSendTherapist(Reminder, t)
            => /\ C23_BookingFacts' = C23_BookingFacts
               /\ C23_Availability' = C23_Availability
     ]_vars

\* the reminder job has ended after it found a confirmed booking of tomorrow
\* and delivered none of its messages; the booking is confirmed as before
C23_Witness ==
  /\ pc[Reminder] = "done" /\ loc[Reminder].op = "remind"
  /\ loc[Reminder].found > 0 /\ loc[Reminder].count = 0
  /\ \E i \in DOMAIN bookings :
       /\ bookings[i].status = "confirmed"
       /\ bookings[i].booking_date = "d2"
       /\ ~slots[bookings[i].time_slot_id].is_available

\* C24: when a run of the sweeper releases its slots, none of them is
\* referenced by a pending or confirmed booking at that moment.
C24_ReleasesUnreferencedSlots ==
  [][\A p \in Procs :
       (pc[p] = "sw_release" /\ pc'[p] = "done" /\ failures' = failures)
         => \A b \in loc[p].selected :
              /\ slots'[b.time_slot_id].is_available
              /\ HoldersOf(b.time_slot_id) = {}
     ]_vars

\* a step of a run of the sweeper from position from to position to
C25_Step(p, from, to) ==
  /\ pc[p] = from /\ pc'[p] = to
  /\ loc'[p].op = "sweep"

\* the run of the sweeper returns n
C25_Returns(p, n) ==
  /\ loc'[p].ret = (IF n = 0 THEN "0" ELSE "count")
  /\ loc'[p].count = n

\* C25: a run of the sweeper ends with a number.  When its select fails or
\* matches nothing, and when its delete fails, it returns 0 and has changed
\* no booking and no slot; when the delete succeeded, the release, failed
\* or not, leaves the bookings as the delete left them and the run returns
\* the number of bookings it selected, a failed release changing no slot.
C25_SweepTolerant ==
  [][\A p \in Procs :
       /\ C25_Step(p, "sw_select", "done")
            => C25_Returns(p, 0) /\ bookings' = bookings /\ slots' = slots
       /\ C25_Step(p, "sw_select", "sw_delete")
            => /\ bookings' = bookings /\ slots' = slots
               /\ loc'[p].selected # {}
       /\ C25_Step(p, "sw_delete", "done")
            => /\ C25_Returns(p, 0) /\ bookings' = bookings /\ slots' = slots
               /\ failures' # failures
       /\ C25_Step(p, "sw_delete", "sw_release")
            => /\ slots' = slots
               /\ \A b \in loc[p].selected : b.id \notin DOMAIN bookings'
       /\ C25_Step(p, "sw_release", "done")
            => /\ C25_Returns(p, Cardinality(loc[p].selected))
               /\ bookings' = bookings
               /\ failures' # failures => slots' = slots
       /\ (pc[p] \in {"sw_delete", "sw_release"} /\ pc'[p] # pc[p])
            => pc'[p] \in {"sw_release", "done"}
     ]_vars

\* a run has returned the number it selected although its release failed:
\* the hold is gone and its slot is still unavailable
C25_Witness ==
  \E p \in Procs :
    /\ pc[p] = "done" /\ loc[p].op = "sweep" /\ loc[p].count > 0
    /\ failures = 1
    /\ bookings = <<>>
    /\ \E s \in SlotIds : ~slots[s].is_available

\* a compensation step of reschedule, after the claim of the new slot has
\* failed, puts the booking back on its old slot
C26_RestoresBooking(p) ==
  /\ pc[p] \in {"rs_undo_booking", "rs_undo_slot"} /\ pc'[p] # pc[p]
  /\ Exists(loc[p].id)
  /\ bookings[loc[p].id].time_slot_id # loc[p].booking.time_slot_id
  /\ bookings'[loc[p].id].time_slot_id = loc[p].booking.time_slot_id

\* C26: after the claim of the new slot has failed, the old slot has been
\* claimed again (undoing leg 2) by the time the booking's fields are
\* restored (undoing leg 1).
C26_ReverseOrder ==
  [][\A p \in Procs :
       C26_RestoresBooking(p) => ~slots[loc[p].booking.time_slot_id].is_available
     ]_vars

\* handler p has answered success to a reschedule or a create_hold that
\* put booking i on slot s
C27_Claimed(p, i, s) ==
  /\ pc[p] = "done"
  /\ \/ loc[p].op = "reschedule" /\ loc[p].ret = "200"
     \/ loc[p].op = "create" /\ loc[p].ret = "201"
  /\ loc[p].id = i
  /\ Exists(i)
  /\ bookings[i].time_slot_id = s

\* C27: of a reschedule to slot s and a create_hold or another reschedule
\* that target s at the same time, at most one answers success with its
\* booking on s.
C27_OneClaimWins ==
  \A p, q \in Procs, i, j \in BookingIds, s \in SlotIds :
    (p # q /\ i # j /\ loc[p].op = "reschedule")
      => ~(C27_Claimed(p, i, s) /\ C27_Claimed(q, j, s))

\* booking id exists and is not customer c's
C28_NotOwner(id, c) == Exists(id) /\ bookings[id].customer_id # c

\* handler p answers 'not found' and no booking and no slot has changed
C28_NotFound(p) ==
  /\ pc'[p] = "done"
  /\ loc'[p].ret = "404 Booking not found"
  /\ bookings' = bookings
  /\ slots' = slots

\* C28: a confirm and a customer cancel of a booking that is not the
\* caller's answer 'not found' and change nothing; an admin cancel and a
\* reschedule of an existing booking go on to their update whenever its
\* status is pending or confirmed, whoever its customer is.
C28_OwnershipForCustomersOnly ==
  [][\A p \in Procs :
       (pc[p] = "idle" /\ pc'[p] # "idle") =>
         \A id \in BookingIds :
           /\ \A c \in Customers :
                (C28_NotOwner(id, c) /\ (ConfirmRead(p, id, c) \/ CancelRead(p, id, c)))
                  => C28_NotFound(p)
           /\ (Exists(id) /\ failures' = failures /\ AdminCancelRead(p, id))
                => (pc'[p] = "ac_update") = Cancellable(bookings[id].status)
           /\ \A s \in SlotIds :
                (Exists(id) /\ failures' = failures /\ RescheduleRead(p, id, s))
                  => (pc'[p] = "rs_slot") = Cancellable(bookings[id].status)
     ]_vars

\* every booking id names a pending booking, no store call has failed, and
\* a cancel has been answered 'not found': its caller was not the owner
C28_Witness ==
  \E p \in Procs :
    /\ failures = 0
    /\ DOMAIN bookings = BookingIds
    /\ \A i \in BookingIds : bookings[i].status = "pending"
    /\ pc[p] = "done" /\ loc[p].op = "cancel"
    /\ loc[p].ret = "404 Booking not found"

\* a compensating store call of handler p, at position from, has succeeded
C29_Compensates(p, from) ==
  /\ pc[p] \in from /\ pc'[p] # pc[p]
  /\ failures' = failures

\* C29: every compensation leaves a state on which the same compensation,
\* executed once more, changes nothing: the delete of the booking just
\* inserted, the restore of a booking's status and expiry, the restore of a
\* booking's slot, date and times, and the renewed claim of the old slot.
C29_CompensationIdempotent ==
  [][\A p \in Procs :
       LET was == loc[p].booking
       IN /\ C29_Compensates(p, {"cr_rollback"})
               => /\ bookings' = DeleteById(bookings, was.id)
                  /\ DeleteById(bookings', was.id) = bookings'
          /\ C29_Compensates(p, {"cn_rollback", "ac_rollback"})
               => /\ bookings' = StatusOf(bookings, loc[p].id, was)
                  /\ StatusOf(bookings', loc[p].id, was) = bookings'
          /\ C29_Compensates(p, {"rs_undo_update", "rs_undo_booking"})
               => /\ bookings' = Moved(bookings, loc[p].id, was.time_slot_id,
                                       was.booking_date, was.start_time, was.end_time)
                  /\ Moved(bookings', loc[p].id, was.time_slot_id,
                           was.booking_date, was.start_time, was.end_time) = bookings'
          /\ C29_Compensates(p, {"rs_undo_slot"})
               => /\ slots' = Available(slots, was.time_slot_id, FALSE)
                  /\ Available(slots', was.time_slot_id, FALSE) = slots'
     ]_vars

\* a create_hold has deleted the hold it had inserted, beside an older
\* booking that is still there
C29_Witness ==
  \E p \in Procs :
    /\ pc[p] = "done" /\ loc[p].op = "create"
    /\ loc[p].ret = "500 Failed to reserve time slot"
    /\ failures = 1
    /\ nextId = 3
    /\ DOMAIN bookings = {1}

\* a compensating store call of handler p has failed
C30_CompensationFails(p) ==
  /\ pc[p] \in {"cr_rollback", "cn_rollback", "ac_rollback",
                "rs_undo_update", "rs_undo_booking", "rs_undo_slot"}
  /\ pc'[p] # pc[p]
  /\ failures' # failures

\* C30: whenever a compensating store call fails, the handler logs the
\* failure with the identifier of the booking.
C30_CompensationFailuresLogged ==
  [][\A p \in Procs :
       C30_CompensationFails(p) => loc'[p].logged = loc[p].booking.id
     ]_vars

\* booking b carries the date and times of the slot it references
C31_CopyOfSlot(b) ==
  /\ b.booking_date = slots[b.time_slot_id].slot_date
  /\ b.start_time = slots[b.time_slot_id].start_time
  /\ b.end_time = slots[b.time_slot_id].end_time

\* C31: in every reachable state the date, start and end of every booking
\* are the date, start and end of the slot it references.
C31_BookingMatchesSlot ==
  \A i \in DOMAIN bookings : C31_CopyOfSlot(bookings[i])

\* a reschedule has moved booking 1 to slot B while the other handler is in
\* the middle of a reschedule of the same booking that it read on slot A
C31_Witness ==
  \E p, q \in Procs :
    /\ p # q
    /\ pc[p] = "done" /\ loc[p].op = "reschedule" /\ loc[p].ret = "200" /\ loc[p].id = 1
    /\ pc[q] \in {"rs_update", "rs_free", "rs_reserve", "rs_undo_booking", "rs_undo_slot"}
    /\ loc[q].id = 1 /\ loc[q].booking.time_slot_id = "A"
    /\ Exists(1) /\ bookings[1].time_slot_id = "B"

\* the fields of every slot that are not its availability
C32_SlotFacts ==
  [s \in DOMAIN slots |->
     <<slots[s].therapist_id, slots[s].slot_date, slots[s].start_time, slots[s].end_time>>]

\* the positions from which a handler sets slots unavailable, and available
C32_Claims == {"cr_claim", "rs_reserve", "rs_undo_slot"}
C32_Releases == {"cn_release", "ac_release", "rs_free", "sw_release"}

\* C32: no step creates or deletes a slot, changes a field of a slot other
\* than is_available, or changes a service; the claims of create_hold and
\* reschedule only set is_available to false, the releases of cancel,
\* reschedule and the sweeper only set it to true, and no other step
\* changes a slot.
C32_OnlyAvailabilityFlips ==
  [][/\ C32_SlotFacts' = C32_SlotFacts
     /\ services' = services
     /\ \A p \in Procs :
          pc'[p] # pc[p] =>
            /\ pc[p] \in C32_Claims
                 => \A s \in SlotIds : slots'[s].is_available => slots[s].is_available
            /\ pc[p] \in C32_Releases
                 => \A s \in SlotIds : slots[s].is_available => slots'[s].is_available
            /\ pc[p] \notin C32_Claims \cup C32_Releases => slots' = slots
     ]_vars

\* a hold has been taken and swept: the slots are as they were at the start
C32_Witness ==
  \E p \in Procs :
    /\ pc[p] = "done" /\ loc[p].op = "sweep" /\ loc[p].count > 0
    /\ failures = 0
    /\ nextId > 1
    /\ slots = InitSlots

\* the confirm of booking id is between its read and its update, or has
\* answered success
C33_Confirming(id) ==
  /\ loc[Client].op = "confirm" /\ loc[Client].id = id
  /\ pc[Client] = "cf_update" \/ (pc[Client] = "done" /\ loc[Client].ret = "200")

\* the reschedule of booking id, read as a pending booking, to another slot
\* than the one it was read on, is between its reads and its last step, or
\* has answered success
C33_Rescheduling(id) ==
  /\ loc[Admin].op = "reschedule" /\ loc[Admin].id = id
  /\ \/ /\ pc[Admin] \in {"rs_update", "rs_free", "rs_reserve"}
        /\ loc[Admin].booking.status = "pending"
        /\ loc[Admin].time_slot_id # loc[Admin].booking.time_slot_id
     \/ pc[Admin] = "done" /\ loc[Admin].ret = "200"

\* C33: when a confirm and a reschedule of the same pending booking overlap
\* and no store call fails, the reschedule ends with the booking on the new
\* slot, the new slot unavailable and the old slot available, whatever the
\* confirm has done so far; the confirm ends with the booking confirmed
\* without expiry and leaves slot, date, times and slots as the reschedule
\* has them; and when both have answered, the booking is confirmed without
\* expiry on an unavailable slot and every other slot is available.
C33_ConfirmAndRescheduleCommute ==
  [][failures' = 0 =>
       \A id \in BookingIds :
         /\ (C33_Confirming(id) /\ C33_Rescheduling(id)
               /\ pc[Admin] = "rs_reserve" /\ pc'[Admin] # pc[Admin])
              => /\ pc'[Admin] = "done" /\ loc'[Admin].ret = "200"
                 /\ bookings'[id].time_slot_id = loc[Admin].time_slot_id
                 /\ C31_CopyOfSlot(bookings'[id])
                 /\ ~slots'[loc[Admin].time_slot_id].is_available
                 /\ slots'[loc[Admin].booking.time_slot_id].is_available
         /\ (C33_Confirming(id) /\ C33_Rescheduling(id)
               /\ pc[Client] = "cf_update" /\ pc'[Client] # pc[Client])
              => /\ pc'[Client] = "done" /\ loc'[Client].ret = "200"
                 /\ bookings' = [bookings EXCEPT ![id].status = "confirmed",
                                                 ![id].payment_status = "paid",
                                                 ![id].reservation_expires_at = NULL]
                 /\ slots' = slots
         /\ (C33_Confirming(id)' /\ C33_Rescheduling(id)'
               /\ pc'[Client] = "done" /\ pc'[Admin] = "done"
               /\ (pc[Client] # "done" \/ pc[Admin] # "done"))
              => /\ bookings'[id].status = "confirmed"
                 /\ bookings'[id].reservation_expires_at = NULL
                 /\ \A s \in SlotIds :
                      slots'[s].is_available = (s # bookings'[id].time_slot_id)
     ]_vars

\* the confirm has read the pending hold and the reschedule, which read it
\* pending on slot A, has moved it to slot B and freed A
C33_Witness ==
  /\ failures = 0
  /\ pc[Client] = "cf_update" /\ loc[Client].id = 1
  /\ pc[Admin] = "rs_reserve" /\ loc[Admin].id = 1
  /\ loc[Admin].booking.status = "pending"
  /\ Exists(1) /\ bookings[1].status = "pending" /\ bookings[1].time_slot_id = "B"
  /\ slots["A"].is_available

\* the scheduler starts a run of the cleanup job: a task that was idle is
\* at the select of a run (the run of POST /cleanup begins in the task of
\* its request, at the answer of the profile)
C34_RunStarts(p) ==
  /\ p \in Procs
  /\ pc[p] = "idle"
  /\ pc'[p] = "sw_select"

\* C34: startCleanupJob is called once, when the server is loaded, and the
\* job it schedules stays scheduled until a shutdown signal; once SIGTERM
\* or SIGINT has been handled the job is stopped for good and no run of the
\* cleanup job is started.
C34_StartedOnceStoppedForGood ==
  [][/\ loc'[Main].count # loc[Main].count
          => pc[Main] = "loading" /\ loc[Main].count = 0 /\ loc'[Main].count = 1
     /\ pc'[Main] # "loading" => loc'[Main].count = 1
     /\ pc'[Main] = "running" => loc'[Main].op = "scheduled"
     /\ pc'[Main] \in {"closing", "exited"} => loc'[Main].op = "stopped"
     /\ pc[Main] \in {"closing", "exited"}
          => /\ pc'[Main] \in {"closing", "exited"}
             /\ \A p \in Procs : ~C34_RunStarts(p)
     ]_vars

\* the shutdown signal has been handled while a run of the cleanup job that
\* found an expired hold is under way
C34_Witness ==
  /\ pc[Main] = "closing"
  /\ loc[Main].op = "stopped"
  /\ loc[Main].count = 1
  /\ \E p \in Procs : pc[p] = "sw_delete"

\* C35: when a confirm and a cancel of the one hold made so far overlap and
\* no store call fails, no booking is left confirmed on a slot that is
\* available once the requests are answered.
C35_ConfirmedKeepsSlot ==
  (Quiescent /\ nextId = 2 /\ failures = 0) =>
    \A i \in DOMAIN bookings :
      bookings[i].status = "confirmed" => ~slots[bookings[i].time_slot_id].is_available

\* the answer of a cancel that succeeded for the booking id
C36_Cancelled(p, id) ==
  /\ pc[p] = "done"
  /\ loc[p].op \in {"cancel", "adminCancel"}
  /\ loc[p].ret = "200"
  /\ loc[p].id = id

\* a cancel frees the slot of its booking while a later hold has the slot
C36_FreesClaimedSlot(p) ==
  /\ pc[p] \in {"cn_release", "ac_release"}
  /\ slots' # slots
  /\ \E i \in DOMAIN bookings :
       /\ i > loc[p].id
       /\ bookings[i].status \in {"pending", "confirmed"}
       /\ bookings[i].time_slot_id = loc[p].booking.time_slot_id

\* C36: while no store call fails, of two cancels of one booking that
\* overlap at most one is answered with success, and no cancel frees a slot
\* that a later hold has claimed.
C36_OneCancelWins ==
  [][failures' = 0 =>
     /\ \A id \in BookingIds : ~(C36_Cancelled("p1", id)' /\ C36_Cancelled("p2", id)')
     /\ \A p \in Procs : ~C36_FreesClaimedSlot(p)
     ]_vars

\* the cleanup job deletes booking id, which it had selected on slot s
C37_Deletes(id, s) ==
  /\ pc[Sweeper] = "sw_delete"
  /\ [id |-> id, time_slot_id |-> s] \in loc[Sweeper].selected
  /\ Exists(id)
  /\ ~Exists(id)'

\* a slot is unavailable and no pending or confirmed booking references it
C37_Orphaned(s) == ~slots[s].is_available /\ HoldersOf(s) = {}

\* C37: while no store call fails, the slot the cleanup job will release
\* for a booking it deletes is the slot the booking references when it is
\* deleted, and when the run ends with no request under way no slot is
\* unavailable without a pending or confirmed booking that references it.
C37_SweepReleasesCurrentSlot ==
  [][failures' = 0 =>
     /\ \A id \in BookingIds, s \in SlotIds :
          C37_Deletes(id, s) => bookings[id].time_slot_id = s
     /\ (pc[Sweeper] = "sw_release" /\ Quiescent')
          => \A s \in SlotIds : ~C37_Orphaned(s)'
     ]_vars

\* confirmReservation would pass booking b on to its update
C38_Confirmable(b) == b.status = "pending" /\ ~HasExpired(b)

\* a run of the cleanup job would select booking b
C38_Sweepable(b) == IsExpiredPending(b, now)

\* C38: at no instant is a pending booking both confirmable and sweepable,
\* and a pending booking that has an expiry is one of the two whatever the
\* order of its expiry and the clock, the minute of expiry included.
C38_ConfirmOrSweep ==
  \A i \in DOMAIN bookings :
    bookings[i].status = "pending" =>
      /\ ~(C38_Confirmable(bookings[i]) /\ C38_Sweepable(bookings[i]))
      /\ bookings[i].reservation_expires_at # NULL
           => (C38_Confirmable(bookings[i]) \/ C38_Sweepable(bookings[i]))

\* at the minute of its expiry a hold has passed the expiry test of a
\* confirm while a run of the cleanup job has found nothing to delete
C38_Witness ==
  \E p, q \in Procs, i \in DOMAIN bookings :
    /\ bookings[i].status = "pending"
    /\ bookings[i].reservation_expires_at = now
    /\ pc[p] = "cf_update" /\ loc[p].id = i
    /\ pc[q] = "done" /\ loc[q].op = "sweep" /\ loc[q].ret = "0"

\* the columns of a booking that are written at its creation only
C39_Identity(b) ==
  <<b.id, b.customer_id, b.therapist_id, b.service_id, b.service_name,
    b.service_price, b.service_duration, b.payment_amount>>

\* C39: no step of a confirm, a cancel, a reschedule or a compensation
\* changes the customer, the provider, the item reference, the item
\* snapshot (name, price, duration) or the amount of a booking: whatever a
\* step writes to a booking that stays is among status, expiry, payment
\* status, slot, date, start and end.
C39_IdentityIsKept ==
  [][\A i \in (DOMAIN bookings) \cap (DOMAIN bookings') :
       C39_Identity(bookings'[i]) = C39_Identity(bookings[i])
     ]_vars

\* a confirmed booking has been moved to slot B, and the compensation of a
\* reschedule has run
C39_Witness ==
  \E p \in Procs, i \in DOMAIN bookings :
    /\ bookings[i].status = "confirmed"
    /\ bookings[i].payment_status = "paid"
    /\ bookings[i].time_slot_id = "B"
    /\ bookings[i].service_id = "s60"
    /\ pc[p] \in {"rs_undo_update", "rs_undo_booking", "rs_undo_slot", "cn_rollback", "ac_rollback"}

\* n brought into min..max
C40_Clamped(n, min, max) == IF n < min THEN min ELSE IF n > max THEN max ELSE n

\* the setting read from value is the default when value is no number and
\* the number brought into min..max otherwise
C40_Setting(result, value, defaultVal, min, max) ==
  /\ result \in min..max
  /\ value = <<>> => result = defaultVal
  /\ value # <<>> => result = C40_Clamped(value[1], min, max)

\* the values of the environment that hold no number: unset, empty, text,
\* and a digit behind a character that is no white space
C40_NoNumber ==
  {Undefined, Str(<<>>), Str(<<"a", "b", "c">>), Str(<<"U+00E9", "7">>),
   Str(<<"U+200B", "7">>)}

\* values that hold an integer, behind white space or before other text,
\* with that integer
C40_Integers ==
  {<<Str(<<"-", "1">>), 0 - 1>>, <<Str(<<"6", "1">>), 61>>, <<Str(<<"+", "7">>), 7>>,
   <<Str(<<"3", "0", "1">>), 301>>, <<Str(<<"1", "2", "m", "i", "n">>), 12>>,
   <<Str(<<VerticalTab, "4", "2">>), 42>>,
   <<Str(<<NoBreakSpace, ByteOrderMark, OghamSpace, "7">>), 7>>,
   <<Str(<<"U+2003", LineSeparator, "U+3000", "9">>), 9>>,
   <<Str(<<"4", NoBreakSpace, "2">>), 4>>}

\* the values above are read as no number and as their integers
C40_Read ==
  /\ \A value \in C40_NoNumber : value \in EnvValues /\ parseInt(value) = <<>>
  /\ \A pair \in C40_Integers : pair[1] \in EnvValues /\ parseInt(pair[1]) = <<pair[2]>>

\* C40: the hold's time to live is within 1..60 minutes, the notice for a
\* cancellation within 0..168 hours and the interval of the cleanup job
\* within 10..300 seconds: each is the number of its environment variable
\* brought into its range, or the default 5, 0 or 30 when the variable holds
\* no number.
C40_SettingsWithinBounds ==
  /\ C40_Read
  /\ \A p \in Procs :
       pc[p] = "done" =>
         /\ loc[p].op = "timeoutMinutes"
              => C40_Setting(loc[p].count, env.RESERVATION_TIMEOUT_MINUTES, 5, 1, 60)
         /\ loc[p].op = "minCancelHours"
              => C40_Setting(loc[p].count, env.MIN_CANCEL_HOURS, 0, 0, 168)
         /\ loc[p].op = "intervalSeconds"
              => C40_Setting(loc[p].count, env.CLEANUP_JOB_INTERVAL_SECONDS, 30, 10, 300)

\* a time to live of 61 minutes has been read as 60 and an interval that
\* is no number as 30
C40_Witness ==
  /\ env.RESERVATION_TIMEOUT_MINUTES = <<61>>
  /\ env.CLEANUP_JOB_INTERVAL_SECONDS = <<>>
  /\ pc[Client] = "done" /\ loc[Client].op = "timeoutMinutes" /\ loc[Client].count = 60
  /\ pc[Sweeper] = "done" /\ loc[Sweeper].op = "intervalSeconds" /\ loc[Sweeper].count = 30

====
